---- MODULE Spec2Model ----
(***************************************************************************)
(* Model of the rate-governed request dispatcher of slack-objects:         *)
(* SlackApiCaller.call (api_caller.py), RateLimitPolicy (rate_limits.py)   *)
(* and RateTier (config.py).                                               *)
(*                                                                         *)
(* Strings whose characters matter (method names, prefixes, Retry-After    *)
(* header values) are sequences of one-character strings.  Durations are   *)
(* integers in milliseconds, so that 1.2 s, 0.6 s and 0.05 s are exact.    *)
(***************************************************************************)
EXTENDS Integers, Sequences, FiniteSets, TLC

(***************************************************************************)
(* Bounds of the model.                                                    *)
(***************************************************************************)
\* number of call slots of the client program
NumCalls == 2

Calls == 1..NumCalls

(***************************************************************************)
(* config.py: RateTier(float, Enum).  Values in milliseconds.              *)
(***************************************************************************)
TIER_1 == 60000
TIER_2 == 3000
TIER_3 == 1200
TIER_4 == 600
TIER_D == 50

RateTier == {"TIER_1", "TIER_2", "TIER_3", "TIER_4", "TIER_D"}

\* float(tier): the member's value, in milliseconds
FloatMs(tier) ==
    CASE tier = "TIER_1" -> TIER_1
      [] tier = "TIER_2" -> TIER_2
      [] tier = "TIER_3" -> TIER_3
      [] tier = "TIER_4" -> TIER_4
      [] tier = "TIER_D" -> TIER_D

\* int(tier) and int(float(tier)): truncation to whole seconds
IntSeconds(tier) == FloatMs(tier) \div 1000

\* bool(tier): a float-mixin Enum member is truthy iff its value is non-zero
Truthy(tier) == FloatMs(tier) # 0

(***************************************************************************)
(* String literals of the source, as character sequences.                  *)
(***************************************************************************)
conversations_history == <<"c", "o", "n", "v", "e", "r", "s", "a", "t", "i", "o", "n", "s", ".", "h", "i", "s", "t", "o", "r", "y">>
files_upload == <<"f", "i", "l", "e", "s", ".", "u", "p", "l", "o", "a", "d">>
admin_ == <<"a", "d", "m", "i", "n", ".">>
scim_ == <<"s", "c", "i", "m", ".">>
conversations_ == <<"c", "o", "n", "v", "e", "r", "s", "a", "t", "i", "o", "n", "s", ".">>
chat_ == <<"c", "h", "a", "t", ".">>
files_ == <<"f", "i", "l", "e", "s", ".">>
users_ == <<"u", "s", "e", "r", "s", ".">>
team_ == <<"t", "e", "a", "m", ".">>

\* method names used by callers and tests
users_info == <<"u", "s", "e", "r", "s", ".", "i", "n", "f", "o">>
chat_postMessage == <<"c", "h", "a", "t", ".", "p", "o", "s", "t", "M", "e", "s", "s", "a", "g", "e">>
admin_teams_list == <<"a", "d", "m", "i", "n", ".", "t", "e", "a", "m", "s", ".", "l", "i", "s", "t">>
totally_unknown == <<"t", "o", "t", "a", "l", "l", "y", ".", "u", "n", "k", "n", "o", "w", "n">>
admin_conversations_ == admin_ \o conversations_
admin_conversations_archive == admin_conversations_ \o <<"a", "r", "c", "h", "i", "v", "e">>
admin_conversations_search == admin_conversations_ \o <<"s", "e", "a", "r", "c", "h">>
unknown_method == <<"u", "n", "k", "n", "o", "w", "n", ".", "m", "e", "t", "h", "o", "d">>

(***************************************************************************)
(* rate_limits.py: RateLimitPolicy.                                        *)
(* method_overrides is a mapping; prefix_rules keeps the insertion order   *)
(* of the dict, which tier_for iterates.                                   *)
(***************************************************************************)
DEFAULT_RATE_POLICY ==
    [ method_overrides |-> (conversations_history :> "TIER_3") @@ (files_upload :> "TIER_2"),
      prefix_rules |-> << [prefix |-> admin_, tier |-> "TIER_1"],
                          [prefix |-> scim_, tier |-> "TIER_2"],
                          [prefix |-> conversations_, tier |-> "TIER_3"],
                          [prefix |-> chat_, tier |-> "TIER_3"],
                          [prefix |-> files_, tier |-> "TIER_2"],
                          [prefix |-> users_, tier |-> "TIER_2"],
                          [prefix |-> team_, tier |-> "TIER_2"] >>,
      default |-> "TIER_3" ]

\* a with_default that builds the new policy from scratch, with empty tables
with_default_FreshTables(p, tier) ==
    [ method_overrides |-> [m \in {} |-> tier],
      prefix_rules |-> <<>>,
      default |-> tier ]

\* dataclasses.replace(self, default=tier)
with_default(p, tier) == [p EXCEPT !.default = tier]

\* str.startswith
startswith(s, prefix) ==
    /\ Len(prefix) <= Len(s)
    /\ \A i \in 1..Len(prefix) : s[i] = prefix[i]

\* the loop without the length comparison: the last matching rule wins
RECURSIVE BestPrefix_LastMatch(_, _, _, _)
BestPrefix_LastMatch(rules, method, i, best) ==
    IF i > Len(rules) THEN best
    ELSE IF startswith(method, rules[i].prefix)
         THEN BestPrefix_LastMatch(rules, method, i + 1, i)
         ELSE BestPrefix_LastMatch(rules, method, i + 1, best)

\* the loop of tier_for over prefix_rules.items(): best is 0 (None) or the
\* index of the best rule so far; a later rule wins only if strictly longer
RECURSIVE BestPrefix(_, _, _, _)
BestPrefix(rules, method, i, best) ==
    IF i > Len(rules) THEN best
    ELSE IF /\ startswith(method, rules[i].prefix)
            /\ (best = 0 \/ Len(rules[i].prefix) > Len(rules[best].prefix))
         THEN BestPrefix(rules, method, i + 1, i)
         ELSE BestPrefix(rules, method, i + 1, best)

\* a tier_for that consults the prefix rules before the exact overrides
tier_for_PrefixFirst(p, method) ==
    LET best == BestPrefix(p.prefix_rules, method, 1, 0)
    IN  IF best # 0 THEN p.prefix_rules[best].tier
        ELSE IF method \in DOMAIN p.method_overrides
             THEN p.method_overrides[method]
             ELSE p.default

\* a tier_for that falls back to the dataclass's field default, TIER_3,
\* instead of the instance's default
tier_for_ClassDefault(p, method) ==
    IF method \in DOMAIN p.method_overrides
    THEN p.method_overrides[method]
    ELSE LET best == BestPrefix(p.prefix_rules, method, 1, 0)
         IN  IF best # 0 THEN p.prefix_rules[best].tier ELSE "TIER_3"

tier_for(p, method) ==
    IF method \in DOMAIN p.method_overrides
    THEN p.method_overrides[method]
    ELSE LET best == BestPrefix(p.prefix_rules, method, 1, 0)
         IN  IF best # 0 THEN p.prefix_rules[best].tier ELSE p.default

(***************************************************************************)
(* Python's int(str): surrounding whitespace is stripped, one optional     *)
(* sign, then decimal digits with single underscores allowed between       *)
(* digits; anything else raises ValueError.                                *)
(***************************************************************************)
Digits == <<"0", "1", "2", "3", "4", "5", "6", "7", "8", "9">>

IsDigit(ch) == \E d \in 1..Len(Digits) : Digits[d] = ch

DigitValue(ch) == (CHOOSE d \in 1..Len(Digits) : Digits[d] = ch) - 1

IsSpace(ch) == ch \in {" ", "\t", "\n"}

RECURSIVE LStrip(_)
LStrip(s) == IF s # <<>> /\ IsSpace(Head(s)) THEN LStrip(Tail(s)) ELSE s

RECURSIVE RStrip(_)
RStrip(s) ==
    IF s # <<>> /\ IsSpace(s[Len(s)]) THEN RStrip(SubSeq(s, 1, Len(s) - 1)) ELSE s

Strip(s) == RStrip(LStrip(s))

ValidDigits(b) ==
    /\ b # <<>>
    /\ \A i \in 1..Len(b) :
          \/ IsDigit(b[i])
          \/ /\ b[i] = "_"
             /\ 1 < i /\ i < Len(b)
             /\ IsDigit(b[i - 1]) /\ IsDigit(b[i + 1])

RECURSIVE DigitsValue(_, _)
DigitsValue(b, acc) ==
    IF b = <<>> THEN acc
    ELSE IF Head(b) = "_" THEN DigitsValue(Tail(b), acc)
    ELSE DigitsValue(Tail(b), 10 * acc + DigitValue(Head(b)))

\* int(s): [ok |-> FALSE] stands for ValueError
PyInt(s) ==
    LET t == Strip(s)
        signed == t # <<>> /\ Head(t) \in {"+", "-"}
        body == IF signed THEN Tail(t) ELSE t
    IN  IF ValidDigits(body)
        THEN [ok |-> TRUE,
              val |-> IF signed /\ Head(t) = "-"
                      THEN 0 - DigitsValue(body, 0)
                      ELSE DigitsValue(body, 0)]
        ELSE [ok |-> FALSE, val |-> 0]

(***************************************************************************)
(* Retry-After header values the server may send (character sequences).    *)
(***************************************************************************)
HintStrings ==
    { <<"0">>, <<"2">>, <<" ", "3">>, <<"1", "_", "0">>,
      <<"-", "1">>, <<"1", ".", "5">>,
      <<"n", "o", "t", "-", "a", "-", "n", "u", "m", "b", "e", "r">>, <<>> }

\* an optional value is the empty set (None / absent) or a singleton
None == {}
Some(x) == {x}
The(o) == CHOOSE x \in o : TRUE

\* e.response.headers restricted to the Retry-After entry
Headers == {None} \cup {Some(h) : h \in HintStrings}

(***************************************************************************)
(* Inputs of SlackApiCaller.call and answers of client.api_call.           *)
(***************************************************************************)
Methods == {users_info, chat_postMessage, admin_teams_list, totally_unknown}

\* **kwargs: a set of <<name, value>> pairs
KwargsSet ==
    { {}, {<<"user", "U1">>}, {<<"channel", "C1">>, <<"text", "hi">>} }

\* cfg.default_rate_tier: the dataclass default and the one the tests use
CfgTiers == {"TIER_2", "TIER_4"}

\* HTTP statuses of a SlackApiError that carries a response
Statuses == {200, 429, 500}

\* e.response: None, or an object with status_code and headers
Responses ==
    {None}
    \cup { Some([status_code |-> 429, headers |-> hd]) : hd \in Headers }
    \cup { Some([status_code |-> st, headers |-> hd]) :
               st \in Statuses \ {429}, hd \in {None, Some(<<"2">>)} }

NoExc == [type |-> "none", response |-> None, at |-> 0, msg |-> <<>>]

\* the at field tells the raised objects apart: the api_call that raised it
SlackApiError(response, n) ==
    [type |-> "SlackApiError", response |-> response, at |-> n, msg |-> <<>>]

OtherError(n) ==
    [type |-> "ConnectionError", response |-> None, at |-> n, msg |-> <<>>]

\* a throttle signal: SlackApiError with a response of status 429
IsThrottleSignal(e) ==
    /\ e.type = "SlackApiError"
    /\ e.response # None
    /\ 429 \in {r.status_code : r \in e.response}

NoPayload == [ok |-> FALSE, n |-> 0]
NoResp == [cls |-> "none", data |-> NoPayload, items |-> NoPayload]

\* the n-th api_call's answer: a SlackResponse with a data attribute, or a
\* plain dict (no data attribute)
OkResponse(cls, n) ==
    IF cls = "SlackResponse"
    THEN [cls |-> cls, data |-> [ok |-> TRUE, n |-> n], items |-> NoPayload]
    ELSE [cls |-> cls, data |-> NoPayload, items |-> [ok |-> TRUE, n |-> n]]

NoOutcome == [kind |-> "none", value |-> NoPayload, exc |-> NoExc]
Returned(v) == [kind |-> "returned", value |-> v, exc |-> NoExc]
Raised(e) == [kind |-> "raised", value |-> NoPayload, exc |-> e]

(***************************************************************************)
(* api_caller.py: the pieces of SlackApiCaller.call.                       *)
(***************************************************************************)
MAX_RETRIES == 5

\* a variant of line 23 that always asks the policy
ResolveTier_IgnoresExplicit(p, rate_tier, method) == tier_for(p, method)

\* line 23: tier = rate_tier or self.policy.tier_for(method)
ResolveTier(p, rate_tier, method) ==
    IF rate_tier # None /\ Truthy(The(rate_tier))
    THEN The(rate_tier)
    ELSE tier_for(p, method)

\* lines 26-29: the arguments of client.api_call
Request(f) ==
    IF f.use_json
    THEN [method |-> f.method, json |-> Some(f.kwargs), params |-> None]
    ELSE [method |-> f.method, json |-> None, params |-> Some(f.kwargs)]

\* a variant of line 31 without the hasattr test
Data_AttributeOnly(resp) == resp.data

\* line 31: data = resp.data if hasattr(resp, "data") else resp
Data(resp) == IF resp.cls = "SlackResponse" THEN resp.data ELSE resp.items

\* a variant of line 32 that sleeps whole seconds, as line 42 does
PaceMs_WholeSeconds(tier) == IntSeconds(tier) * 1000

\* line 32: the argument of the pacing sleep, float(tier), in milliseconds
PaceMs(tier) == FloatMs(tier)

\* a variant of line 36 that does not look at the status code
IsRateLimited_AnyStatus(e) == e.response # None

\* line 36: e.response is not None and e.response.status_code == 429
IsRateLimited(e) ==
    /\ e.response # None
    /\ The(e.response).status_code = 429

\* a variant of line 37 that gives up one attempt early
RetriesExhausted_OneEarly(retry_count) == retry_count >= MAX_RETRIES - 1

\* line 37
RetriesExhausted(retry_count) == retry_count >= MAX_RETRIES

\* a variant of lines 39-42 that never reads the header
RetryAfter_IgnoresHeader(headers, tier) == IntSeconds(tier)

\* lines 39-42: int(headers.get("Retry-After", tier)), and int(float(tier))
\* when int raises ValueError; whole seconds
RetryAfter(headers, tier) ==
    IF headers = None
    THEN IntSeconds(tier)
    ELSE IF PyInt(The(headers)).ok
         THEN PyInt(The(headers)).val
         ELSE IntSeconds(tier)

\* time.sleep raises ValueError for a negative argument
SleepRaises(secs) == secs < 0

SleepValueError(n) ==
    [type |-> "ValueError", response |-> None, at |-> n,
     msg |-> <<"sleep length must be non-negative">>]

\* line 38
GiveUpError(method, n) ==
    [type |-> "RuntimeError", response |-> None, at |-> n,
     msg |-> <<"Rate-limited", MAX_RETRIES, method>>]

\* a frame of call: arguments and locals
Frame(pc, method, rate_tier, use_json, kwargs, retry_count) ==
    [pc |-> pc, method |-> method, rate_tier |-> rate_tier,
     use_json |-> use_json, kwargs |-> kwargs, retry_count |-> retry_count,
     tier |-> "unset", resp |-> NoResp, exc |-> NoExc, retry_after |-> 0,
     outcome |-> NoOutcome]

IdleFrame == Frame("idle", <<>>, None, FALSE, {}, 0)

\* variants of line 44 that forget to pass use_json, **kwargs, or rate_tier
RecursiveCall_DropsUseJson(f) ==
    Frame("entry", f.method, Some(f.tier), FALSE, f.kwargs, f.retry_count + 1)

RecursiveCall_DropsKwargs(f) ==
    Frame("entry", f.method, Some(f.tier), f.use_json, {}, f.retry_count + 1)

RecursiveCall_DropsRateTier(f) ==
    Frame("entry", f.method, None, f.use_json, f.kwargs, f.retry_count + 1)

\* line 44: self.call(client, method, rate_tier=tier, use_json=use_json,
\*                    _retry_count=_retry_count + 1, **kwargs)
RecursiveCall(f) ==
    Frame("entry", f.method, Some(f.tier), f.use_json, f.kwargs,
          f.retry_count + 1)

(***************************************************************************)
(* State.                                                                  *)
(*   cfg, policy : SlackApiCaller.cfg and SlackApiCaller.policy            *)
(*   frame[c]    : the running frame of call c (arguments, locals, and     *)
(*                 the position in the body of call)                       *)
(*   obs[c]      : what the client and the clock saw of call c: the        *)
(*                 api_call invocations, their answers and the sleeps      *)
(***************************************************************************)
VARIABLES cfg, policy, frame, obs

(***************************************************************************)
(* The state of the other two programs of this development, each run under *)
(* a specification of its own:                                             *)
(*   pol    a client of RateLimitPolicy: the policy object it built, the   *)
(*          latest with_default call and the latest tier_for lookup        *)
(*   scim   a client of the SCIM operations: the hosts, the operation in   *)
(*          progress, the request it issued and what came of it            *)
(*   pg     a client of the paginated listings: the listing in progress,   *)
(*          its accumulator and payload, and the Workspaces cache          *)
(***************************************************************************)
VARIABLES pol, scim, pg

vars == <<cfg, policy, frame, obs, pol, scim, pg>>

\* no policy client and no SCIM client is running
NoPolicyClient == [built |-> FALSE]

NoScimClient == [built |-> FALSE]

\* no listing client is running
NoListingClient == [built |-> FALSE]

NoSleep == [kind |-> "none", ms |-> 0]

NoObs ==
    [ args0 |-> None,          \* the caller's method, rate_tier, use_json, kwargs
      tier0 |-> None,          \* the tier resolved by the first frame
      sends |-> 0,             \* api_call invocations so far
      throttled |-> 0,         \* of which answered with a 429 SlackApiError
      first_send |-> None,     \* the first request
      last_send |-> None,      \* the latest request
      answer |-> "none",       \* the latest answer: "ok", "throttle", "error"
      error |-> NoExc,         \* the exception of the latest answer, if any
      resp |-> NoResp,         \* the response of the latest answer, if any
      waits |-> 0,             \* completed retry sleeps
      paces |-> 0,             \* completed pacing sleeps
      since_send |-> 0,        \* sleeps completed since the latest api_call
      last_sleep |-> NoSleep,  \* the latest sleep since the latest api_call
      sleep_arg |-> None,      \* the argument of the latest time.sleep call
      interrupt |-> NoExc ]    \* the exception that interrupted a time.sleep

\* SlackApiCaller.__init__ (lines 16-19)
Init ==
    /\ cfg \in [default_rate_tier : CfgTiers]
    /\ policy = with_default(DEFAULT_RATE_POLICY, cfg.default_rate_tier)
    /\ frame = [c \in Calls |-> IdleFrame]
    /\ obs = [c \in Calls |-> NoObs]
    /\ pol = NoPolicyClient
    /\ scim = NoScimClient
    /\ pg = NoListingClient

\* the client program uses its SlackApiCaller serially: a call starts when
\* no other call is running
Serial(c) == \A d \in Calls \ {c} : frame[d].pc = "idle"

\* a caller invokes self.api.call(client, method, rate_tier=, use_json=, **kwargs)
Invoke(c) ==
    /\ frame[c].pc = "idle"
    /\ Serial(c)
    /\ \E method \in Methods, use_json \in BOOLEAN, kwargs \in KwargsSet,
          rate_tier \in {None} \cup {Some(t) : t \in RateTier} :
          /\ frame' = [frame EXCEPT ![c] =
                          Frame("entry", method, rate_tier, use_json, kwargs, 0)]
          /\ obs' = [obs EXCEPT ![c] =
                        [NoObs EXCEPT !.args0 =
                            Some([method |-> method, rate_tier |-> rate_tier,
                                  use_json |-> use_json, kwargs |-> kwargs])]]
    /\ UNCHANGED <<cfg, policy>>

\* lines 22-23
Enter(c) ==
    LET f == frame[c]
        tier == ResolveTier(policy, f.rate_tier, f.method)
    IN  /\ f.pc = "entry"
        /\ frame' = [frame EXCEPT ![c].tier = tier, ![c].pc = "try"]
        /\ obs' = [obs EXCEPT ![c].tier0 =
                      IF obs[c].tier0 = None THEN Some(tier) ELSE @]
        /\ UNCHANGED <<cfg, policy>>

\* a variant of lines 25-29 with pacing across calls: a send waits while
\* another call has sent and not yet completed its pacing sleep
MaySend_GlobalPacing(c) == \A d \in Calls \ {c} : frame[d].pc # "ok"

\* lines 25-29: api_call is invoked at once; call takes no lock and reads
\* no clock or counter shared with other calls
MaySend(c) == TRUE

\* what the client sees of one api_call invocation
Sent(o, f) ==
    [o EXCEPT !.sends = @ + 1,
              !.first_send = IF o.first_send = None THEN Some(Request(f)) ELSE @,
              !.last_send = Some(Request(f)),
              !.since_send = 0,
              !.last_sleep = NoSleep,
              !.sleep_arg = None]

\* lines 26-29, api_call returns a response
ApiCallReturns(c) ==
    LET f == frame[c]
        o == Sent(obs[c], f)
    IN  /\ f.pc = "try"
        /\ MaySend(c)
        /\ \E cls \in {"SlackResponse", "dict"} :
              LET r == OkResponse(cls, o.sends)
              IN  /\ frame' = [frame EXCEPT ![c].resp = r, ![c].pc = "ok"]
                  /\ obs' = [obs EXCEPT ![c] =
                                [o EXCEPT !.answer = "ok", !.resp = r,
                                          !.error = NoExc]]
        /\ UNCHANGED <<cfg, policy>>

\* lines 26-29 and 35, api_call raises SlackApiError
ApiCallRaisesSlackApiError(c) ==
    LET f == frame[c]
        o == Sent(obs[c], f)
    IN  /\ f.pc = "try"
        /\ MaySend(c)
        /\ \E response \in Responses :
              LET e == SlackApiError(response, o.sends)
              IN  /\ frame' = [frame EXCEPT ![c].exc = e, ![c].pc = "except"]
                  /\ obs' = [obs EXCEPT ![c] =
                                [o EXCEPT !.answer = IF IsThrottleSignal(e)
                                                     THEN "throttle" ELSE "error",
                                          !.throttled = IF IsThrottleSignal(e)
                                                        THEN @ + 1 ELSE @,
                                          !.error = e, !.resp = NoResp]]
        /\ UNCHANGED <<cfg, policy>>

\* lines 26-29, api_call raises an exception that is no SlackApiError: no
\* except clause matches and it leaves call (and every enclosing frame)
ApiCallRaisesOther(c) ==
    LET f == frame[c]
        o == Sent(obs[c], f)
        e == OtherError(o.sends)
    IN  /\ f.pc = "try"
        /\ MaySend(c)
        /\ frame' = [frame EXCEPT ![c].pc = "done", ![c].outcome = Raised(e)]
        /\ obs' = [obs EXCEPT ![c] =
                      [o EXCEPT !.answer = "error", !.error = e,
                                !.resp = NoResp]]
        /\ UNCHANGED <<cfg, policy>>

\* a completed time.sleep
Slept(o, kind, ms) ==
    [o EXCEPT !.waits = IF kind = "retry" THEN @ + 1 ELSE @,
              !.paces = IF kind = "pace" THEN @ + 1 ELSE @,
              !.since_send = @ + 1,
              !.last_sleep = [kind |-> kind, ms |-> ms],
              !.sleep_arg = Some(ms)]

\* lines 31-33: data, the pacing sleep, return data (the enclosing frames
\* return the same value: line 44 is "return self.call(...)")
PaceAndReturn(c) ==
    LET f == frame[c]
    IN  /\ f.pc = "ok"
        /\ frame' = [frame EXCEPT ![c].pc = "done",
                                  ![c].outcome = Returned(Data(f.resp))]
        /\ obs' = [obs EXCEPT ![c] = Slept(@, "pace", PaceMs(f.tier))]
        /\ UNCHANGED <<cfg, policy>>

\* a variant of line 21 that counts the retries on the SlackApiCaller, for
\* all its invocations together
retry_count_Shared(c) ==
    LET counts == {frame[d].retry_count : d \in Calls}
    IN  CHOOSE n \in counts : \A m \in counts : m <= n

\* line 21: _retry_count is a parameter of the frame
retry_count(c) == frame[c].retry_count

\* line 45: raise
Reraise(c) ==
    LET f == frame[c]
    IN  /\ f.pc = "except"
        /\ ~IsRateLimited(f.exc)
        /\ frame' = [frame EXCEPT ![c].pc = "done",
                                  ![c].outcome = Raised(f.exc)]
        /\ UNCHANGED <<cfg, policy, obs>>

\* lines 37-38
GiveUp(c) ==
    LET f == frame[c]
    IN  /\ f.pc = "except"
        /\ IsRateLimited(f.exc)
        /\ RetriesExhausted(retry_count(c))
        /\ frame' = [frame EXCEPT ![c].pc = "done",
                        ![c].outcome = Raised(GiveUpError(f.method, obs[c].sends))]
        /\ UNCHANGED <<cfg, policy, obs>>

\* a variant of lines 39-43 with exponential backoff: the wait doubles with
\* every attempt
retry_after_Doubling(c) ==
    RetryAfter(The(frame[c].exc.response).headers, frame[c].tier)
        * (2 ^ frame[c].retry_count)

\* lines 39-42: retry_after, from the header of this throttle signal and tier
retry_after(c) ==
    RetryAfter(The(frame[c].exc.response).headers, frame[c].tier)

\* lines 39-42
ComputeRetryAfter(c) ==
    LET f == frame[c]
    IN  /\ f.pc = "except"
        /\ IsRateLimited(f.exc)
        /\ ~RetriesExhausted(retry_count(c))
        /\ frame' = [frame EXCEPT ![c].pc = "retry_sleep",
                        ![c].retry_after = retry_after(c)]
        /\ UNCHANGED <<cfg, policy, obs>>

\* line 43, the sleep completes
RetrySleep(c) ==
    LET f == frame[c]
    IN  /\ f.pc = "retry_sleep"
        /\ ~SleepRaises(f.retry_after)
        /\ frame' = [frame EXCEPT ![c].pc = "recurse"]
        /\ obs' = [obs EXCEPT ![c] = Slept(@, "retry", f.retry_after * 1000)]
        /\ UNCHANGED <<cfg, policy>>

\* line 43, time.sleep rejects its argument: ValueError leaves the handler
RetrySleepRaises(c) ==
    LET f == frame[c]
    IN  /\ f.pc = "retry_sleep"
        /\ SleepRaises(f.retry_after)
        /\ frame' = [frame EXCEPT ![c].pc = "done",
                        ![c].outcome = Raised(SleepValueError(obs[c].sends))]
        /\ obs' = [obs EXCEPT ![c].sleep_arg = Some(f.retry_after * 1000)]
        /\ UNCHANGED <<cfg, policy>>

\* line 44: the recursive call; its result is this frame's result
Recurse(c) ==
    /\ frame[c].pc = "recurse"
    /\ frame' = [frame EXCEPT ![c] = RecursiveCall(frame[c])]
    /\ UNCHANGED <<cfg, policy, obs>>

\* the caller takes the result (or the exception) of a finished call
Collect(c) ==
    /\ frame[c].pc = "done"
    /\ frame' = [frame EXCEPT ![c] = IdleFrame]
    /\ obs' = [obs EXCEPT ![c] = NoObs]
    /\ UNCHANGED <<cfg, policy>>

Next ==
    /\ \E c \in Calls :
           \/ Invoke(c)
           \/ Enter(c)
           \/ ApiCallReturns(c)
           \/ ApiCallRaisesSlackApiError(c)
           \/ ApiCallRaisesOther(c)
           \/ PaceAndReturn(c)
           \/ Reraise(c)
           \/ GiveUp(c)
           \/ ComputeRetryAfter(c)
           \/ RetrySleep(c)
           \/ RetrySleepRaises(c)
           \/ Recurse(c)
           \/ Collect(c)
    /\ UNCHANGED <<pol, scim, pg>>

Spec == Init /\ [][Next]_vars

(***************************************************************************)
(* Properties of SlackApiCaller.call.                                      *)
(***************************************************************************)
Done(c) == frame[c].pc = "done"

GaveUp(c) ==
    /\ Done(c)
    /\ frame[c].outcome.kind = "raised"
    /\ frame[c].outcome.exc.type = "RuntimeError"

\* the Retry-After header of the latest answer of call c, when that answer
\* is a throttle signal
LatestHint(c) == (The(obs[c].error.response)).headers

\* the header values of HintStrings that Python's int() accepts, with their
\* values in seconds
IntegerHints ==
    (<<"0">> :> 0) @@ (<<"2">> :> 2) @@ (<<" ", "3">> :> 3)
    @@ (<<"1", "_", "0">> :> 10) @@ (<<"-", "1">> :> (0 - 1))

\* the latest throttle signal of call c has no Retry-After header, or one
\* that is no integer
HintUnusable(c) ==
    \/ LatestHint(c) = None
    \/ The(LatestHint(c)) \notin DOMAIN IntegerHints

\* C1: against a client that answers every api_call with a throttle signal,
\* a call makes exactly 6 api_call invocations and then fails with the
\* give-up RuntimeError; there is never a 7th invocation.
C1_AlwaysThrottledGivesUpAfterSix ==
    \A c \in Calls :
        /\ obs[c].sends <= MAX_RETRIES + 1
        /\ (Done(c) /\ obs[c].throttled = obs[c].sends)
              => (GaveUp(c) /\ obs[c].sends = MAX_RETRIES + 1)

\* C2: for k in 0..5, when the first k api_call invocations are throttled
\* and the (k+1)-th is answered with a response, the call has made exactly
\* k+1 invocations and returns the data of that response without raising.
C2_ReturnsDataAfterKThrottles ==
    \A c \in Calls :
        obs[c].answer = "ok" =>
            /\ obs[c].throttled \in 0..MAX_RETRIES
            /\ obs[c].sends = obs[c].throttled + 1
            /\ frame[c].pc \in {"ok", "done"}
            /\ Done(c) =>
                  frame[c].outcome =
                      Returned([ok |-> TRUE, n |-> obs[c].throttled + 1])

\* a success on the 6th attempt (after 5 throttle signals) is returned, from
\* a response that is a plain dict
C2_Witness ==
    \E c \in Calls :
        /\ Done(c)
        /\ obs[c].throttled = MAX_RETRIES
        /\ obs[c].resp.cls = "dict"
        /\ frame[c].outcome.kind = "returned"

\* C3: every api_call of one call uses the serialization style of the first
\* attempt: json=kwargs when use_json is true, params=kwargs otherwise.
C3_SerializationPreserved ==
    \A c \in Calls :
        obs[c].last_send # None =>
            LET a == The(obs[c].args0)
                first == The(obs[c].first_send)
                last == The(obs[c].last_send)
            IN  /\ (last.json # None) = a.use_json
                /\ (last.params # None) = ~a.use_json
                /\ (last.json # None) = (first.json # None)
                /\ (last.params # None) = (first.params # None)

\* the 4th attempt of a use_json call, after 3 throttle signals
C3_Witness ==
    \E c \in Calls :
        /\ obs[c].sends = 4
        /\ obs[c].throttled = 3
        /\ (The(obs[c].args0)).use_json
        /\ (The(obs[c].last_send)).json # None

\* C4: every retry is sent with the method name and the keyword arguments
\* of the first attempt.
C4_ArgumentsPreserved ==
    \A c \in Calls :
        obs[c].last_send # None =>
            LET a == The(obs[c].args0)
                last == The(obs[c].last_send)
            IN  /\ last.method = a.method
                /\ last.json \cup last.params = Some(a.kwargs)
                /\ last.method = (The(obs[c].first_send)).method
                /\ last.json \cup last.params =
                      (The(obs[c].first_send)).json
                          \cup (The(obs[c].first_send)).params

\* a retry, after a retry wait, of a call with two keyword arguments
C4_Witness ==
    \E c \in Calls :
        /\ obs[c].sends >= 2
        /\ obs[c].waits >= 1
        /\ obs[c].answer = "throttle"
        /\ Cardinality((The(obs[c].args0)).kwargs) = 2
        /\ (The(obs[c].last_send)).method = chat_postMessage

\* C5: when the throttle signal has no Retry-After header, or one that is
\* no integer, the retry wait equals the call's pacing interval (the tier
\* value: 1.2 s for TIER_3, 0.6 s for TIER_4, 0.05 s for TIER_D).
C5_FallbackWaitIsTierValue ==
    \A c \in Calls :
        (frame[c].pc = "recurse" /\ HintUnusable(c)) =>
            obs[c].last_sleep =
                [kind |-> "retry", ms |-> FloatMs(The(obs[c].tier0))]

\* C6: no Retry-After value makes the call fail: a call ends only with its
\* result, with the give-up error, or with the non-throttling error that
\* api_call raised.
C6_NoHintFailsTheCall ==
    \A c \in Calls :
        (Done(c) /\ frame[c].outcome.kind = "raised") =>
            \/ GaveUp(c) /\ obs[c].throttled = MAX_RETRIES + 1
            \/ /\ obs[c].answer = "error"
               /\ frame[c].outcome.exc = obs[c].error

\* C7: when the Retry-After header of a throttle signal is an integer n,
\* time.sleep is called with exactly n seconds, and the completed retry
\* wait is n seconds, whatever the tier.
C7_IntegerHintUsedVerbatim ==
    \A c \in Calls :
        (/\ obs[c].answer = "throttle"
         /\ ~HintUnusable(c)
         /\ obs[c].sleep_arg # None) =>
            LET n == IntegerHints[The(LatestHint(c))]
            IN  /\ obs[c].sleep_arg = Some(n * 1000)
                /\ obs[c].since_send = 1 =>
                      obs[c].last_sleep = [kind |-> "retry", ms |-> n * 1000]

\* a completed retry wait of 10 s ("1_0") in a call paced at TIER_3
C7_Witness ==
    \E c \in Calls :
        /\ frame[c].pc = "recurse"
        /\ LatestHint(c) = Some(<<"1", "_", "0">>)
        /\ obs[c].tier0 = Some("TIER_3")
        /\ obs[c].last_sleep = [kind |-> "retry", ms |-> 10000]

\* C8: a non-throttling error of api_call (SlackApiError without response
\* or with a status other than 429, or another exception) is re-raised as
\* is, with no further api_call, no retry wait and no pacing sleep.
C8_OtherErrorsPropagate ==
    \A c \in Calls :
        obs[c].answer = "error" =>
            /\ frame[c].pc \in {"except", "done"}
            /\ obs[c].error.at = obs[c].sends
            /\ obs[c].since_send = 0
            /\ obs[c].sleep_arg = None
            /\ Done(c) => frame[c].outcome = Raised(obs[c].error)

\* a SlackApiError with status 500 and a Retry-After header, raised by the
\* third attempt, has ended the call
C8_Witness ==
    \E c \in Calls :
        /\ Done(c)
        /\ obs[c].sends = 3
        /\ obs[c].error.type = "SlackApiError"
        /\ obs[c].error.response =
              Some([status_code |-> 500, headers |-> Some(<<"2">>)])
        /\ frame[c].outcome.kind = "raised"

\* C9: the give-up error is raised only if each of the 6 api_call
\* invocations of the call was answered with a throttle signal.
C9_GiveUpOnlyAfterSixThrottles ==
    \A c \in Calls :
        GaveUp(c) =>
            /\ obs[c].sends = MAX_RETRIES + 1
            /\ obs[c].throttled = obs[c].sends
            /\ obs[c].answer = "throttle"

C9_Witness ==
    \E c \in Calls :
        /\ GaveUp(c)
        /\ obs[c].throttled = 6
        /\ frame[c].outcome.exc.msg = <<"Rate-limited", 5, frame[c].method>>

\* C10: no sleep precedes the first api_call, and a call that got a
\* response sleeps exactly once after it, for the resolved pacing interval,
\* before it returns.
C10_PacingAfterSuccessOnly ==
    \A c \in Calls :
        /\ obs[c].sends = 0 =>
              (obs[c].waits = 0 /\ obs[c].paces = 0 /\ obs[c].sleep_arg = None)
        /\ obs[c].paces > 0 => (obs[c].answer = "ok" /\ Done(c))
        /\ (obs[c].answer = "ok" /\ ~Done(c)) => obs[c].since_send = 0
        /\ (obs[c].answer = "ok" /\ Done(c)) =>
              /\ obs[c].paces = 1
              /\ obs[c].since_send = 1
              /\ obs[c].last_sleep =
                    [kind |-> "pace", ms |-> FloatMs(The(obs[c].tier0))]

\* a call paced at TIER_3 by the policy returned after one retry and a
\* pacing sleep of 1.2 s
C10_Witness ==
    \E c \in Calls :
        /\ Done(c)
        /\ frame[c].outcome.kind = "returned"
        /\ obs[c].waits = 1
        /\ (The(obs[c].args0)).rate_tier = None
        /\ obs[c].last_sleep = [kind |-> "pace", ms |-> 1200]

\* C11: the effective pacing interval of a call is the explicit rate_tier
\* whenever one is passed, whatever the policy says for the method, and
\* policy.tier_for(method) only when none is passed; the pacing sleep uses it.
C11_ExplicitTierWins ==
    \A c \in Calls :
        obs[c].tier0 # None =>
            LET a == The(obs[c].args0)
                effective == IF a.rate_tier # None
                             THEN The(a.rate_tier)
                             ELSE tier_for(policy, a.method)
            IN  /\ obs[c].tier0 = Some(effective)
                /\ frame[c].pc # "entry" => frame[c].tier = effective
                /\ obs[c].paces > 0 => obs[c].last_sleep.ms = FloatMs(effective)

\* a call of admin.teams.list (TIER_1 by the policy) with the explicit
\* rate_tier TIER_D has slept 50 ms and returned
C11_Witness ==
    \E c \in Calls :
        /\ Done(c)
        /\ (The(obs[c].args0)).method = admin_teams_list
        /\ (The(obs[c].args0)).rate_tier = Some("TIER_D")
        /\ tier_for(policy, admin_teams_list) = "TIER_1"
        /\ obs[c].last_sleep = [kind |-> "pace", ms |-> 50]

(***************************************************************************)
(* RateLimitPolicy under a client that builds a policy, derives policies   *)
(* from it with with_default and resolves method names on both.            *)
(***************************************************************************)
MaxRules == 2

\* the tiers, prefixes, override keys and method names of the policies the
\* unit tests build
PolicyTiers == {"TIER_1", "TIER_2", "TIER_4"}

PolicyPrefixes == {admin_, admin_conversations_, chat_}

PolicyOverrideKeys == {files_upload, admin_conversations_archive}

PolicyMethods ==
    { files_upload, admin_conversations_archive, admin_conversations_search,
      admin_teams_list, chat_postMessage, unknown_method }

\* prefix_rules is a dict: its keys are distinct and it is iterated in
\* insertion order, which the constructor's caller chooses
RuleTables ==
    UNION { { r \in [1..n -> [prefix : PolicyPrefixes, tier : PolicyTiers]] :
                \A i, j \in 1..n : i # j => r[i].prefix # r[j].prefix } :
            n \in 0..MaxRules }

OverrideTables == UNION { [K -> PolicyTiers] : K \in SUBSET PolicyOverrideKeys }

Policies ==
    [ method_overrides : OverrideTables,
      prefix_rules : RuleTables,
      default : PolicyTiers ]

\* an in-place with_default: self.default = tier; return self
WithDefaultEffect_InPlace(self, tier) ==
    [ self |-> with_default(self, tier), result |-> with_default(self, tier) ]

\* what a with_default call does to the object it is called on and what it
\* returns: the dataclass is frozen and replace() builds a new object
WithDefaultEffect(self, tier) ==
    [ self |-> self, result |-> with_default(self, tier) ]

\* the object a lookup is made on
Target(on) == IF on = "orig" THEN pol.orig ELSE The(pol.derived)

PolicyInit ==
    /\ cfg = [default_rate_tier |-> "TIER_2"]
    /\ policy = with_default(DEFAULT_RATE_POLICY, cfg.default_rate_tier)
    /\ frame = [c \in Calls |-> IdleFrame]
    /\ obs = [c \in Calls |-> NoObs]
    /\ scim = NoScimClient
    /\ pg = NoListingClient
    /\ \E p \in Policies :
           pol = [ built |-> TRUE,
                   made |-> p,        \* the fields the policy was built with
                   orig |-> p,        \* the policy object as it is now
                   derived |-> None,  \* the result of the latest with_default
                   given |-> None,    \* the tier passed to it
                   lookup |-> None ]  \* the latest tier_for call

\* derived = orig.with_default(t)
WithDefaultCall ==
    /\ pol.built
    /\ \E t \in PolicyTiers :
           LET e == WithDefaultEffect(pol.orig, t)
           IN  pol' = [pol EXCEPT !.orig = e.self,
                                  !.derived = Some(e.result),
                                  !.given = Some(t),
                                  !.lookup = None]
    /\ UNCHANGED <<cfg, policy, frame, obs, scim, pg>>

\* orig.tier_for(m) or derived.tier_for(m)
TierForCall ==
    /\ pol.built
    /\ \E on \in {"orig"} \cup (IF pol.derived # None THEN {"derived"} ELSE {}),
          m \in PolicyMethods :
           pol' = [pol EXCEPT !.lookup =
                       Some([on |-> on, method |-> m, tier |-> tier_for(Target(on), m)])]
    /\ UNCHANGED <<cfg, policy, frame, obs, scim, pg>>

PolicyNext == WithDefaultCall \/ TierForCall

SpecPolicy == PolicyInit /\ [][PolicyNext]_vars

(***************************************************************************)
(* Properties of RateLimitPolicy.                                          *)
(***************************************************************************)
\* the indices of the prefix rules of p whose prefix the method starts with
Matching(p, method) ==
    { i \in 1..Len(p.prefix_rules) : startswith(method, p.prefix_rules[i].prefix) }

\* C12: a lookup of a method name that is a key of method_overrides returns
\* the override's tier, whatever prefix rules match the name too.
C12_ExactOverrideWins ==
    pol.lookup # None =>
        LET l == The(pol.lookup)
            p == Target(l.on)
        IN  l.method \in DOMAIN p.method_overrides =>
                l.tier = p.method_overrides[l.method]

C12_Witness ==
    /\ pol.lookup # None
    /\ LET l == The(pol.lookup)
           p == pol.orig
       IN  /\ l.on = "orig"
           /\ l.method = admin_conversations_archive
           /\ l.method \in DOMAIN p.method_overrides
           /\ p.method_overrides[l.method] = "TIER_1"
           /\ Cardinality(Matching(p, l.method)) = 2
           /\ \A i \in Matching(p, l.method) : p.prefix_rules[i].tier # "TIER_1"
           /\ l.tier = "TIER_1"

\* C13: a lookup of a method name with no exact override and at least one
\* matching prefix rule returns the tier of the longest prefix the name
\* starts with, wherever that rule stands in prefix_rules.
C13_LongestPrefixWins ==
    pol.lookup # None =>
        LET l == The(pol.lookup)
            p == Target(l.on)
            M == Matching(p, l.method)
        IN  (l.method \notin DOMAIN p.method_overrides /\ M # {}) =>
                \A i \in M :
                    (\A j \in M \ {i} :
                         Len(p.prefix_rules[j].prefix) < Len(p.prefix_rules[i].prefix))
                        => l.tier = p.prefix_rules[i].tier

\* the longest matching prefix is stored before a shorter matching one
C13_Witness ==
    /\ pol.lookup # None
    /\ LET l == The(pol.lookup)
           p == pol.orig
       IN  /\ l.on = "orig"
           /\ l.method = admin_conversations_search
           /\ l.method \notin DOMAIN p.method_overrides
           /\ Len(p.prefix_rules) = 2
           /\ p.prefix_rules[1] = [prefix |-> admin_conversations_, tier |-> "TIER_2"]
           /\ p.prefix_rules[2] = [prefix |-> admin_, tier |-> "TIER_1"]
           /\ p.default = "TIER_4"
           /\ l.tier = "TIER_2"

\* C14: a lookup of a method name that is no key of method_overrides and
\* starts with no key of prefix_rules returns the policy's default tier.
C14_DefaultFallback ==
    pol.lookup # None =>
        LET l == The(pol.lookup)
            p == Target(l.on)
        IN  (l.method \notin DOMAIN p.method_overrides /\ Matching(p, l.method) = {}) =>
                l.tier = p.default

C14_Witness ==
    /\ pol.lookup # None
    /\ LET l == The(pol.lookup)
           p == pol.orig
       IN  /\ l.on = "orig"
           /\ l.method = unknown_method
           /\ DOMAIN p.method_overrides = PolicyOverrideKeys
           /\ Len(p.prefix_rules) = MaxRules
           /\ p.default = "TIER_4"
           /\ \A k \in DOMAIN p.method_overrides : p.method_overrides[k] # "TIER_4"
           /\ \A i \in 1..Len(p.prefix_rules) : p.prefix_rules[i].tier # "TIER_4"
           /\ l.tier = "TIER_4"

\* C15: with_default(t) returns a policy whose default is t, and after any
\* number of with_default calls the original's default, method_overrides
\* and prefix_rules are what they were when it was built.
C15_WithDefaultLeavesOriginal ==
    /\ pol.orig = pol.made
    /\ pol.derived # None => (The(pol.derived)).default = The(pol.given)

C15_Witness ==
    /\ pol.derived # None
    /\ pol.given = Some("TIER_1")
    /\ (The(pol.derived)).default = "TIER_1"
    /\ pol.made.default = "TIER_4"
    /\ pol.orig.default = "TIER_4"
    /\ pol.orig.prefix_rules # <<>>
    /\ DOMAIN pol.orig.method_overrides # {}

\* C16: a policy derived with with_default(t) resolves a method name that
\* matches an exact override or a prefix rule to the tier the original
\* resolves it to, and every other method name to t.
C16_DerivedKeepsRules ==
    pol.lookup # None =>
        LET l == The(pol.lookup)
            o == pol.made
        IN  l.on = "derived" =>
                IF l.method \in DOMAIN o.method_overrides \/ Matching(o, l.method) # {}
                THEN l.tier = tier_for(o, l.method)
                ELSE l.tier = The(pol.given)

\* the derived policy resolves a name by a rule it shares with the original,
\* to a tier that is neither its own default nor the original's
C16_Witness ==
    /\ pol.lookup # None
    /\ pol.given = Some("TIER_1")
    /\ LET l == The(pol.lookup)
           o == pol.made
       IN  /\ l.on = "derived"
           /\ l.method = chat_postMessage
           /\ Matching(o, l.method) # {}
           /\ o.default = "TIER_4"
           /\ l.tier = "TIER_2"
           /\ tier_for(o, l.method) = "TIER_2"

(***************************************************************************)
(* scim_base.py: the identifier validator.                                 *)
(***************************************************************************)
MaxIdLen == 2

UpperCase ==
    { "A", "B", "C", "D", "E", "F", "G", "H", "I", "J", "K", "L", "M",
      "N", "O", "P", "Q", "R", "S", "T", "U", "V", "W", "X", "Y", "Z" }

LowerCase ==
    { "a", "b", "c", "d", "e", "f", "g", "h", "i", "j", "k", "l", "m",
      "n", "o", "p", "q", "r", "s", "t", "u", "v", "w", "x", "y", "z" }

\* the character class [A-Za-z0-9_\-]
IsIdChar(ch) == ch \in UpperCase \cup LowerCase \cup {"_", "-"} \/ IsDigit(ch)

\* [A-Za-z0-9_\-]+ spans the whole of s
AllIdChars(s) == Len(s) > 0 /\ \A i \in 1..Len(s) : IsIdChar(s[i])

\* _SLACK_ID_RE.match(value) is not None, for ^[A-Za-z0-9_\-]+$ : without
\* re.MULTILINE, $ matches at the end of the string and also just before a
\* newline that is the last character of the string
SLACK_ID_RE_match(value) ==
    \/ AllIdChars(value)
    \/ /\ Len(value) > 1
       /\ value[Len(value)] = "\n"
       /\ AllIdChars(SubSeq(value, 1, Len(value) - 1))

\* the outcome of a call: what it returned or the type of what it raised
ScimReturned(v) == [kind |-> "returned", exc |-> "none", value |-> <<v>>]

ScimRaised(type) == [kind |-> "raised", exc |-> type, value |-> <<>>]

validate_scim_id(value) ==
    IF value = <<>> \/ ~SLACK_ID_RE_match(value)
    THEN ScimRaised("ValueError")
    ELSE ScimReturned(value)

\* the characters identifiers are drawn from: a letter, a digit, the
\* underscore, and the separators and whitespace the tests try
IdAlphabet == {"U", "1", "_", "/", ".", ";", " ", "\n"}

Ids == UNION { [1..n -> IdAlphabet] : n \in 0..MaxIdLen }

\* an optional identifier argument: None or a string
OptionalIds == {None} \cup {Some(v) : v \in Ids}

\* Python's `a or b` on optional strings: a if it is a non-empty string
OrElse(a, b) == IF a # None /\ The(a) # <<>> THEN a ELSE b

\* Python's `not x` on an optional string
Falsy(x) == x = None \/ The(x) = <<>>

(***************************************************************************)
(* The answers of scim_session.request: a status code and a body text.     *)
(* JSON values are records of a type tag and the content.                  *)
(***************************************************************************)
JsonNull == [t |-> "null", v |-> <<>>]

JsonObject(tag) == [t |-> "object", v |-> <<tag>>]

JsonArray(items) == [t |-> "array", v |-> items]

JsonString(s) == [t |-> "string", v |-> <<s>>]

EmptyDict == [k \in {} |-> JsonNull]

ScimStatuses == {200, 304, 404, 429}

ScimTexts ==
    { "", "<html>", "[]", "{}",
      "{\"Errors\": {\"code\": 404}}",
      "{\"Errors\": null}",
      "{\"members\": [{\"value\": \"U1\"}]}" }

ScimAnswers == [status_code : ScimStatuses, text : ScimTexts]

\* resp.json(): the decoded body, or a raised decoding error
json(text) ==
    CASE text = "{}" ->
             [raised |-> FALSE, dict |-> TRUE, value |-> EmptyDict]
      [] text = "{\"Errors\": {\"code\": 404}}" ->
             [raised |-> FALSE, dict |-> TRUE,
              value |-> [k \in {"Errors"} |-> JsonObject("code: 404")]]
      [] text = "{\"Errors\": null}" ->
             [raised |-> FALSE, dict |-> TRUE,
              value |-> [k \in {"Errors"} |-> JsonNull]]
      [] text = "{\"members\": [{\"value\": \"U1\"}]}" ->
             [raised |-> FALSE, dict |-> TRUE,
              value |-> [k \in {"members"} |-> JsonArray(<<"U1">>)]]
      [] text = "[]" ->
             [raised |-> FALSE, dict |-> FALSE, value |-> EmptyDict]
      [] OTHER ->
             [raised |-> TRUE, dict |-> FALSE, value |-> EmptyDict]

\* requests.Response.ok: raise_for_status() does not raise, which it does
\* for the status codes 400..599
ResponseOk(resp) == ~(400 <= resp.status_code /\ resp.status_code < 600)

\* dict.get(key): the value, or None (JSON null) when the key is absent
Get(data, key) == IF key \in DOMAIN data THEN data[key] ELSE JsonNull

\* text = resp.text or ""; data = resp.json() if text else {}; a decoding
\* error gives {"_raw_text": text}.  dict tells a JSON object from any other
\* JSON value, value holds the object's entries
DecodeBody(resp) ==
    IF resp.text = "" THEN [dict |-> TRUE, value |-> EmptyDict]
    ELSE LET j == json(resp.text)
         IN  IF j.raised
             THEN [dict |-> TRUE,
                   value |-> [k \in {"_raw_text"} |-> JsonString(resp.text)]]
             ELSE [dict |-> j.dict, value |-> j.value]

(***************************************************************************)
(* scim_base.py and idp_groups.py: the two _scim_request methods.  Each is *)
(* an operator from the host object, the arguments and the server's answer *)
(* to what the call did: the request it issued (if any), the pacing sleep  *)
(* it made (if any) and its outcome.                                       *)
(***************************************************************************)
Users_ == <<"U", "s", "e", "r", "s", "/">>
Groups_ == <<"G", "r", "o", "u", "p", "s", "/">>
Users_path == <<"U", "s", "e", "r", "s">>
Groups_path == <<"/", "G", "r", "o", "u", "p", "s">>
U1 == <<"U", "1">>
S1 == <<"S", "1">>

\* path.lstrip("/")
RECURSIVE LStripSlash(_)
LStripSlash(path) ==
    IF path # <<>> /\ Head(path) = "/" THEN LStripSlash(Tail(path)) ELSE path

\* s.split("/")[0]
RECURSIVE FirstSegment(_)
FirstSegment(s) ==
    IF s = <<>> \/ Head(s) = "/" THEN <<>>
    ELSE <<Head(s)>> \o FirstSegment(Tail(s))

\* line 114
PathRoot(path) == FirstSegment(LStripSlash(path))

ScimResponse(ok, status_code, data, text) ==
    [ok |-> ok, status_code |-> status_code, data |-> data, text |-> text]

\* what a call did
Did(sent, slept, outcome) == [sent |-> sent, slept |-> slept, outcome |-> outcome]

\* an ok that is the HTTP status alone
Ok_StatusOnly(resp, data) == ResponseOk(resp)

\* line 111: resp.ok and (data.get("Errors") is None)
Ok(resp, data) == ResponseOk(resp) /\ Get(data, "Errors") = JsonNull

\* ScimMixin._scim_request (scim_base.py:59-117); self has cfg and, when
\* the client has set it, rate_policy
ScimMixin_scim_request(self, path, method, raise_for_status, rate_tier, resp) ==
    IF self.cfg.scim_token = None
    THEN Did(None, None, ScimRaised("ValueError"))
    ELSE LET sent == Some([method |-> method, path |-> LStripSlash(path)])
             body == DecodeBody(resp)
         IN  IF raise_for_status /\ ~ResponseOk(resp)
             THEN Did(sent, None, ScimRaised("HTTPError"))
             ELSE IF ResponseOk(resp) /\ ~body.dict
             THEN Did(sent, None, ScimRaised("AttributeError"))
             ELSE IF rate_tier = None /\ self.rate_policy = None
             THEN Did(sent, None, ScimRaised("AttributeError"))
             ELSE LET tier == IF rate_tier # None
                              THEN The(rate_tier)
                              ELSE tier_for(The(self.rate_policy),
                                            scim_ \o PathRoot(path))
                  IN  Did(sent, Some(FloatMs(tier)),
                          ScimReturned(ScimResponse(Ok(resp, body.value),
                                                    resp.status_code,
                                                    body, resp.text)))

\* IDP_groups._scim_request (idp_groups.py:68-111): always raises for an
\* error status, returns the decoded body, sleeps TIER_2
IDP_groups_scim_request(self, path, method, resp) ==
    IF self.cfg.scim_token = None
    THEN Did(None, None, ScimRaised("ValueError"))
    ELSE LET sent == Some([method |-> method, path |-> LStripSlash(path)])
         IN  IF ~ResponseOk(resp)
             THEN Did(sent, None, ScimRaised("HTTPError"))
             ELSE Did(sent, Some(FloatMs("TIER_2")), ScimReturned(DecodeBody(resp)))

(***************************************************************************)
(* users.py: the SCIM operations of Users that take a user id.  Each gives *)
(* what the call did, the id it validated and the id it put in the path.   *)
(***************************************************************************)
\* what an operation did: the identifier validate_scim_id accepted, the
\* identifier embedded in the request path, and the request's Did
Op(validated, embedded, did) ==
    [ validated |-> validated, embedded |-> embedded,
      sent |-> did.sent, slept |-> did.slept, outcome |-> did.outcome ]

NothingSent(outcome) == Did(None, None, outcome)

\* cfg.scim_version selects the payload; any other version is refused
PayloadVersions == {"v2", "v1"}

\* the tail shared by the four operations, from validate_scim_id on
ValidateThenRequest(self, uid, method, needs_payload, resp) ==
    IF validate_scim_id(uid).kind = "raised"
    THEN Op(None, None, NothingSent(ScimRaised("ValueError")))
    ELSE IF needs_payload /\ self.cfg.scim_version \notin PayloadVersions
    THEN Op(Some(uid), None, NothingSent(ScimRaised("NotImplementedError")))
    ELSE Op(Some(uid), Some(uid),
            ScimMixin_scim_request(self, Users_ \o uid, method, TRUE, None, resp))

\* lines 545-548
scim_deactivate_user(self, user_id, resp) ==
    ValidateThenRequest(self, user_id, "DELETE", FALSE, resp)

\* the head shared by scim_reactivate_user and make_multi_channel_guest:
\* uid = user_id or self.user_id; if not uid: raise ValueError
PassedOrBound(self, user_id, resp) ==
    LET uid == OrElse(user_id, self.user_id)
    IN  IF Falsy(uid)
        THEN Op(None, None, NothingSent(ScimRaised("ValueError")))
        ELSE ValidateThenRequest(self, The(uid), "PATCH", TRUE, resp)

\* lines 550-571
scim_reactivate_user(self, user_id, resp) == PassedOrBound(self, user_id, resp)

\* lines 573-594
scim_update_user_attribute(self, user_id, resp) ==
    ValidateThenRequest(self, user_id, "PATCH", TRUE, resp)

\* lines 596-627
make_multi_channel_guest(self, user_id, resp) == PassedOrBound(self, user_id, resp)

(***************************************************************************)
(* idp_groups.py: the operations of IDP_groups that take a group id.       *)
(***************************************************************************)
\* lines 125-127
scim_group_get(self, group_id, resp) ==
    IDP_groups_scim_request(self, Groups_ \o group_id, "GET", resp)

\* lines 173-185
get_members(self, group_id, resp) ==
    LET gid == OrElse(group_id, self.group_id)
    IN  IF Falsy(gid)
        THEN Op(None, None, NothingSent(ScimRaised("ValueError")))
        ELSE LET did == scim_group_get(self, The(gid), resp)
                 body == did.outcome.value[1]
             IN  IF did.outcome.kind = "raised"
                 THEN Op(None, Some(The(gid)), did)
                 ELSE IF ~body.dict
                 THEN Op(None, Some(The(gid)),
                         Did(did.sent, did.slept, ScimRaised("AttributeError")))
                 ELSE Op(None, Some(The(gid)),
                         Did(did.sent, did.slept,
                             ScimReturned(IF "members" \in DOMAIN body.value
                                          THEN body.value["members"]
                                          ELSE JsonArray(<<>>))))

\* lines 187-197
is_member(self, user_id, group_id, resp) ==
    LET got == get_members(self, group_id, resp)
        members == got.outcome.value[1]
    IN  IF got.outcome.kind = "raised" THEN got
        ELSE [got EXCEPT !.outcome =
                  ScimReturned(\E i \in 1..Len(members.v) : members.v[i] = user_id)]

(***************************************************************************)
(* A client of the SCIM operations.  It holds a configuration and makes    *)
(* one call at a time, on an unbound object or on one bound to an id; the  *)
(* server's answer to the request of a call is any of ScimAnswers.         *)
(***************************************************************************)
NoRequestArgs == [path |-> <<>>, raise_for_status |-> TRUE, rate_tier |-> None]

NoRun ==
    [ op |-> "none", passed |-> None, bound |-> None, args |-> NoRequestArgs,
      answer |-> None, validated |-> None, embedded |-> None, sent |-> None,
      slept |-> None, outcome |-> ScimRaised("none") ]

\* the record of a finished call: its name, the id passed and the id the
\* object is bound to, the server's answer if a request was issued, and
\* what the call did
Run(op, passed, bound, args, resp, o) ==
    [ op |-> op, passed |-> passed, bound |-> bound, args |-> args,
      answer |-> IF o.sent = None THEN None ELSE Some(resp),
      validated |-> o.validated, embedded |-> o.embedded, sent |-> o.sent,
      slept |-> o.slept, outcome |-> o.outcome ]

ScimVersions == {"v2", "v1", "v3"}

UserBound == {None, Some(U1)}

GroupBound == {None, Some(S1)}

\* the paths, raise_for_status flags and rate tiers of direct calls
DirectPaths == {Users_path, Groups_path, Users_ \o U1}

DirectTiers == {None, Some("TIER_D")}

\* a Users object of the client: users or users.with_user(bound)
UsersSelf(bound) ==
    [cfg |-> scim.cfg, rate_policy |-> scim.rate_policy, user_id |-> bound]

\* an IDP_groups object of the client: idp or idp.with_group(bound)
IdpSelf(bound) == [cfg |-> scim.cfg, group_id |-> bound]

\* a policy with entries of their own for the two SCIM resources
scim_Users == scim_ \o Users_path
scim_Groups == scim_ \o <<"G", "r", "o", "u", "p", "s">>

ResourcePolicy ==
    [ method_overrides |-> (scim_Users :> "TIER_3") @@ (scim_Groups :> "TIER_4"),
      prefix_rules |-> << [prefix |-> scim_, tier |-> "TIER_2"] >>,
      default |-> "TIER_1" ]

\* the rate_policy attribute of the host objects: absent unless the client
\* sets it
HostPolicies == {None, Some(DEFAULT_RATE_POLICY), Some(ResourcePolicy)}

ScimInit ==
    /\ cfg = [default_rate_tier |-> "TIER_2"]
    /\ policy = with_default(DEFAULT_RATE_POLICY, cfg.default_rate_tier)
    /\ frame = [c \in Calls |-> IdleFrame]
    /\ obs = [c \in Calls |-> NoObs]
    /\ pol = NoPolicyClient
    /\ pg = NoListingClient
    /\ \E token \in {None, Some("xoxp-scim")}, version \in ScimVersions,
          rp \in HostPolicies :
           scim = [ built |-> TRUE,
                    cfg |-> [scim_token |-> token, scim_version |-> version],
                    rate_policy |-> rp,
                    run |-> NoRun ]

\* the client is between two calls
Ready == scim.built /\ scim.run.op = "none"

ValidateCall ==
    /\ Ready
    /\ \E value \in Ids :
           scim' = [scim EXCEPT !.run =
               Run("validate_scim_id", Some(value), None, NoRequestArgs, NoRun,
                   Op(None, None, NothingSent(validate_scim_id(value))))]
    /\ UNCHANGED <<cfg, policy, frame, obs, pol, pg>>

ScimRequestCall ==
    /\ Ready
    /\ \E path \in DirectPaths, rfs \in BOOLEAN, tier \in DirectTiers,
          resp \in ScimAnswers :
           scim' = [scim EXCEPT !.run =
               Run("_scim_request", None, None,
                   [path |-> path, raise_for_status |-> rfs, rate_tier |-> tier],
                   resp,
                   Op(None, None,
                      ScimMixin_scim_request(UsersSelf(None), path, "GET",
                                             rfs, tier, resp)))]
    /\ UNCHANGED <<cfg, policy, frame, obs, pol, pg>>

ScimDeactivateUser ==
    /\ Ready
    /\ \E user_id \in Ids, bound \in UserBound, resp \in ScimAnswers :
           scim' = [scim EXCEPT !.run =
               Run("scim_deactivate_user", Some(user_id), bound, NoRequestArgs,
                   resp, scim_deactivate_user(UsersSelf(bound), user_id, resp))]
    /\ UNCHANGED <<cfg, policy, frame, obs, pol, pg>>

ScimReactivateUser ==
    /\ Ready
    /\ \E user_id \in OptionalIds, bound \in UserBound, resp \in ScimAnswers :
           scim' = [scim EXCEPT !.run =
               Run("scim_reactivate_user", user_id, bound, NoRequestArgs,
                   resp, scim_reactivate_user(UsersSelf(bound), user_id, resp))]
    /\ UNCHANGED <<cfg, policy, frame, obs, pol, pg>>

ScimUpdateUserAttribute ==
    /\ Ready
    /\ \E user_id \in Ids, bound \in UserBound, resp \in ScimAnswers :
           scim' = [scim EXCEPT !.run =
               Run("scim_update_user_attribute", Some(user_id), bound,
                   NoRequestArgs, resp,
                   scim_update_user_attribute(UsersSelf(bound), user_id, resp))]
    /\ UNCHANGED <<cfg, policy, frame, obs, pol, pg>>

MakeMultiChannelGuest ==
    /\ Ready
    /\ \E user_id \in OptionalIds, bound \in UserBound, resp \in ScimAnswers :
           scim' = [scim EXCEPT !.run =
               Run("make_multi_channel_guest", user_id, bound, NoRequestArgs,
                   resp, make_multi_channel_guest(UsersSelf(bound), user_id, resp))]
    /\ UNCHANGED <<cfg, policy, frame, obs, pol, pg>>

GetMembers ==
    /\ Ready
    /\ \E group_id \in OptionalIds, bound \in GroupBound, resp \in ScimAnswers :
           scim' = [scim EXCEPT !.run =
               Run("get_members", group_id, bound, NoRequestArgs, resp,
                   get_members(IdpSelf(bound), group_id, resp))]
    /\ UNCHANGED <<cfg, policy, frame, obs, pol, pg>>

IsMember ==
    /\ Ready
    /\ \E group_id \in OptionalIds, bound \in GroupBound, resp \in ScimAnswers :
           scim' = [scim EXCEPT !.run =
               Run("is_member", group_id, bound, NoRequestArgs, resp,
                   is_member(IdpSelf(bound), "U1", group_id, resp))]
    /\ UNCHANGED <<cfg, policy, frame, obs, pol, pg>>

\* the client takes the result and is ready for its next call
ScimCollect ==
    /\ scim.built
    /\ scim.run.op # "none"
    /\ scim' = [scim EXCEPT !.run = NoRun]
    /\ UNCHANGED <<cfg, policy, frame, obs, pol, pg>>

ScimNext ==
    \/ ValidateCall
    \/ ScimRequestCall
    \/ ScimDeactivateUser
    \/ ScimReactivateUser
    \/ ScimUpdateUserAttribute
    \/ MakeMultiChannelGuest
    \/ GetMembers
    \/ IsMember
    \/ ScimCollect

SpecScim == ScimInit /\ [][ScimNext]_vars

(***************************************************************************)
(* Properties of the identifier validator and of the SCIM operations.      *)
(***************************************************************************)
UsersOps ==
    { "scim_deactivate_user", "scim_reactivate_user",
      "scim_update_user_attribute", "make_multi_channel_guest" }

\* the user id a Users operation acts on: the one passed, or for
\* scim_reactivate_user and make_multi_channel_guest the bound one when none
\* (or an empty one) is passed
EffectiveUserId ==
    IF scim.run.op \in {"scim_reactivate_user", "make_multi_channel_guest"}
    THEN OrElse(scim.run.passed, scim.run.bound)
    ELSE scim.run.passed

\* C17: validate_scim_id(value, label) returns value unchanged exactly when
\* value is a non-empty string of characters in [A-Za-z0-9_-], and raises
\* ValueError for every other string, a trailing newline included.
C17_AcceptsExactlyIdStrings ==
    scim.run.op = "validate_scim_id" =>
        LET value == The(scim.run.passed)
        IN  IF AllIdChars(value)
            THEN scim.run.outcome = ScimReturned(value)
            ELSE scim.run.outcome = ScimRaised("ValueError")

\* C18: a call of scim_deactivate_user, scim_reactivate_user,
\* scim_update_user_attribute or make_multi_channel_guest with an invalid
\* user id raises ValueError and issues no SCIM request.
C18_InvalidUserIdIssuesNoRequest ==
    scim.run.op \in UsersOps =>
        LET uid == EffectiveUserId
        IN  (Falsy(uid) \/ ~AllIdChars(The(uid))) =>
                /\ scim.run.outcome = ScimRaised("ValueError")
                /\ scim.run.sent = None

\* C19: a SCIM request whose path embeds a caller-supplied identifier is
\* issued only after that identifier passed validate_scim_id, in the Users
\* operations and in IDP_groups.get_members and is_member, so the embedded
\* identifier has no '/', '.' or other character outside [A-Za-z0-9_-].
C19_EmbeddedIdsAreValidated ==
    (scim.run.sent # None /\ scim.run.embedded # None) =>
        /\ scim.run.validated = scim.run.embedded
        /\ AllIdChars(The(scim.run.embedded))

\* a finished call that returned a ScimResponse
ReturnedScimResponse ==
    /\ scim.run.op \in UsersOps \cup {"_scim_request"}
    /\ scim.run.outcome.kind = "returned"

\* the 2xx status codes
SuccessStatus(status_code) == 200 <= status_code /\ status_code < 300

ExchangeSucceeded ==
    /\ scim.run.sent # None
    /\ ResponseOk(The(scim.run.answer))
    /\ (DecodeBody(The(scim.run.answer))).dict

\* C21: a SCIM request is paced with the explicit rate_tier when one is
\* given, and otherwise with the tier the host's rate policy returns for
\* 'scim.<first path segment>', for requests of Users and of IDP_groups.
C21_ScimPacedByResourceTier ==
    ExchangeSucceeded =>
        IF scim.run.args.rate_tier # None
        THEN scim.run.slept = Some(FloatMs(The(scim.run.args.rate_tier)))
        ELSE /\ scim.run.slept # None
             /\ scim.rate_policy # None =>
                    scim.run.slept =
                        Some(FloatMs(tier_for(The(scim.rate_policy),
                                              scim_ \o PathRoot((The(scim.run.sent)).path))))

\* C22: a SCIM request answered with HTTP 429 is handled like a throttled
\* Web API call: the adapter waits and re-sends, and surfaces a failure
\* only after its retries; it does not fail on the first 429.
C22_ThrottledScimRequestIsRetried ==
    (scim.run.sent # None /\ (The(scim.run.answer)).status_code = 429) =>
        /\ scim.run.slept # None
        /\ scim.run.outcome.exc # "HTTPError"
        /\ scim.run.outcome.kind = "returned" =>
               (scim.run.op \in UsersOps \cup {"_scim_request"} =>
                    scim.run.outcome.value[1].status_code # 429)

\* C23: a Users SCIM operation with a valid id, a configured token and no
\* explicit rate_tier, on a Users object as constructed (no attribute added
\* by the client), whose HTTP exchange succeeds, returns a ScimResponse.
C23_UsersSatisfiesScimMixin ==
    (/\ scim.run.op \in UsersOps
     /\ scim.rate_policy = None
     /\ ExchangeSucceeded)
        => /\ scim.run.outcome.kind = "returned"
           /\ scim.run.outcome.value[1].status_code = (The(scim.run.answer)).status_code

(***************************************************************************)
(* messages.py and workspaces.py: the cursor-paginated listings.  A page   *)
(* fetch is one api.call; the remote API's answer to it is any page.       *)
(***************************************************************************)
MaxFetches == 4
MaxPageItems == 2
MaxLimit == 3
MaxTeamsPages == 2

\* the i-th item of the k-th page fetched
Item(k, i) == [page |-> k, pos |-> i]

\* resp.get("messages") or [] (users, teams) of the k-th page, of n items
Batch(k, n) == [i \in 1..n |-> Item(k, i)]

\* response_metadata.next_cursor: absent, empty, or one of two cursors
NextCursors == {None, Some(""), Some("a"), Some("b")}

\* the answers of a page fetch: a page (ok or not), or an exception out of
\* api.call
ListingAnswers ==
    [raises : {FALSE}, ok : {TRUE}, n : 0..MaxPageItems, next_cursor : NextCursors]
    \cup { [raises |-> FALSE, ok |-> FALSE, n |-> 0, next_cursor |-> None],
           [raises |-> TRUE, ok |-> FALSE, n |-> 0, next_cursor |-> None] }

\* the limits a caller passes: None or a count
Limits == {None} \cup {Some(l) : l \in 0..MaxLimit}

ListReturned(v) == [kind |-> "returned", exc |-> "none", value |-> v]

ListRaised(type) == [kind |-> "raised", exc |-> type, value |-> <<>>]

\* a loop with an iteration cap of its own
WhileTrue_Capped(fetches) == fetches < 2

\* while True:
WhileTrue(fetches) == TRUE

\* an accumulator that keeps the latest page only
Extend_Replaces(out, batch) == batch

\* out.extend(batch)
Extend(out, batch) == out \o batch

\* a limit test that needs more than limit items
LimitReached_Strict(limit, out) == limit # None /\ Len(out) > The(limit)

\* limit is not None and len(out) >= limit
LimitReached(limit, out) == limit # None /\ Len(out) >= The(limit)

\* a return without truncation
Truncate_Nothing(out, limit) == out

\* out[:limit], for limit >= 0
Truncate(out, limit) ==
    SubSeq(out, 1, IF The(limit) < Len(out) THEN The(limit) ELSE Len(out))

\* cursor = ((resp.get("response_metadata") or {}).get("next_cursor")) or ""
CursorOf(page) == IF page.next_cursor = None THEN "" ELSE The(page.next_cursor)

\* one iteration of the loop on the k-th answer: the new accumulator, and
\* either the outcome of the listing or the cursor put in the payload
LoopBody(limit, out, answer, k) ==
    IF answer.raises
    THEN [ends |-> TRUE, out |-> out, outcome |-> ListRaised("SlackApiError"), cursor |-> None]
    ELSE IF ~answer.ok
    THEN [ends |-> TRUE, out |-> out, outcome |-> ListRaised("RuntimeError"), cursor |-> None]
    ELSE LET acc == Extend(out, Batch(k, answer.n))
         IN  IF LimitReached(limit, acc)
             THEN [ends |-> TRUE, out |-> acc,
                   outcome |-> ListReturned(Truncate(acc, limit)), cursor |-> None]
             ELSE IF CursorOf(answer) = ""
             THEN [ends |-> TRUE, out |-> acc,
                   outcome |-> ListReturned(acc), cursor |-> None]
             ELSE [ends |-> FALSE, out |-> acc,
                   outcome |-> ListRaised("none"), cursor |-> Some(CursorOf(answer))]

\* the listings of Messages and of Workspaces.list_users
Listings == {"get_messages", "get_message_threads", "list_users"}

\* the listings that take a limit
LimitedListings == {"get_messages", "get_message_threads"}

\* the channel (and thread) or workspace id a listing works on, passed or
\* bound: None when there is neither
ListingTargets == {None, Some("C1")}

\* the payload of a listing apart from its cursor: the channel or team
\* and the limit (lines 221-231)
NoArgs == [target |-> None, limit |-> None]

PayloadArgs(limit) == [target |-> Some("C1"), limit |-> limit]

\* a variant of line 248 that forgets to store the cursor in the payload
SetCursor_Forgotten(payload_cursor, cursor) == payload_cursor

\* line 248: payload["cursor"] = cursor
SetCursor(payload_cursor, cursor) == cursor

\* a listing object with no call in progress
IdleListing(cache, listed) ==
    [ built |-> TRUE, op |-> "none", limit |-> None, force_refresh |-> FALSE,
      pc |-> "idle",
      out |-> <<>>,        \* the accumulator
      cursor |-> None,     \* payload["cursor"]
      fetches |-> 0,       \* page fetches of this call
      sent |-> None,       \* the cursor the latest fetch carried
      args |-> NoArgs,     \* the payload without its cursor
      first |-> None,      \* the first request of this call
      req |-> None,        \* the latest request of this call
      last_next |-> None,  \* next_cursor of the latest page
      prev_next |-> None,  \* next_cursor of the page before it
      active_only |-> FALSE, \* the flag of Users.get_channels
      sizes |-> <<>>,      \* the item counts of the ok pages fetched
      more |-> <<>>,       \* per ok page: its next cursor was non-empty
      outcome |-> ListRaised("none"),
      cache |-> cache,     \* Workspaces.workspaces_cache
      listed |-> listed,   \* a list_workspaces call has returned before
      before |-> listed ]  \* the same, as it was when this call started

\* the object when a listing enters its loop
Started(op, limit, force) ==
    [pg EXCEPT !.op = op, !.limit = limit, !.force_refresh = force,
               !.args = PayloadArgs(limit),
               !.pc = "fetch", !.before = pg.listed]

\* the object when a call ends without entering the loop
Ended(op, limit, force, outcome) ==
    [pg EXCEPT !.op = op, !.limit = limit, !.force_refresh = force,
               !.pc = "done", !.outcome = outcome, !.before = pg.listed]

PagesInit ==
    /\ cfg = [default_rate_tier |-> "TIER_2"]
    /\ policy = with_default(DEFAULT_RATE_POLICY, cfg.default_rate_tier)
    /\ frame = [c \in Calls |-> IdleFrame]
    /\ obs = [c \in Calls |-> NoObs]
    /\ pol = NoPolicyClient
    /\ scim = NoScimClient
    /\ pg = IdleListing(<<>>, FALSE)

\* get_messages, get_message_threads, list_users: up to the loop
ListingCall ==
    /\ pg.built /\ pg.pc = "idle"
    /\ \E op \in Listings, target \in ListingTargets,
          limit \in Limits :
           /\ limit # None => op \in LimitedListings
           /\ pg' = IF target = None
                    THEN Ended(op, limit, FALSE, ListRaised("ValueError"))
                    ELSE Started(op, limit, FALSE)
    /\ UNCHANGED <<cfg, policy, frame, obs, pol, scim>>

\* the object after one iteration: the fetch, its answer and what the loop
\* makes of it; list_workspaces stores its cache after the loop
Fetched(answer) ==
    LET k == pg.fetches + 1
        b == LoopBody(pg.limit, pg.out, answer, k)
        page == ~answer.raises /\ answer.ok
        request == [args |-> pg.args, cursor |-> pg.cursor]
        caches == /\ pg.op = "list_workspaces"
                  /\ b.ends /\ b.outcome.kind = "returned"
    IN  [pg EXCEPT
            !.fetches = k,
            !.sent = pg.cursor,
            !.first = IF pg.fetches = 0 THEN Some(request) ELSE @,
            !.req = Some(request),
            !.prev_next = pg.last_next,
            !.last_next = IF page THEN answer.next_cursor ELSE None,
            !.sizes = IF page THEN Append(@, answer.n) ELSE @,
            !.more = IF page THEN Append(@, CursorOf(answer) # "") ELSE @,
            !.out = b.out,
            !.cursor = IF b.ends THEN @ ELSE SetCursor(@, b.cursor),
            !.pc = IF b.ends THEN "done" ELSE "fetch",
            !.outcome = b.outcome,
            !.cache = IF caches THEN b.out ELSE @,
            !.listed = IF caches THEN TRUE ELSE @]

\* an iteration of get_messages, get_message_threads or list_users
FetchPage ==
    /\ pg.built /\ pg.pc = "fetch"
    /\ WhileTrue(pg.fetches)
    /\ pg.fetches < MaxFetches
    /\ \E answer \in ListingAnswers : pg' = Fetched(answer)
    /\ UNCHANGED <<cfg, policy, frame, obs, pol, scim>>

\* the caller takes the result; the object keeps its cache
ListingCollect ==
    /\ pg.built /\ pg.pc = "done"
    /\ pg' = IdleListing(pg.cache, pg.listed)
    /\ UNCHANGED <<cfg, policy, frame, obs, pol, scim>>

PagesNext == ListingCall \/ FetchPage \/ ListingCollect

SpecPages == PagesInit /\ [][PagesNext]_vars

\* list_workspaces up to the loop: the cached list when there is one and no
\* refresh is forced
ListWorkspacesCall ==
    /\ pg.built /\ pg.pc = "idle"
    /\ \E force_refresh \in BOOLEAN :
           pg' = IF pg.cache # <<>> /\ ~force_refresh
                 THEN Ended("list_workspaces", None, force_refresh,
                            ListReturned(pg.cache))
                 ELSE Started("list_workspaces", None, force_refresh)
    /\ UNCHANGED <<cfg, policy, frame, obs, pol, scim>>

\* an iteration of list_workspaces; the loop's end stores the cache
FetchTeamsPage ==
    /\ pg.built /\ pg.pc = "fetch"
    /\ WhileTrue(pg.fetches)
    /\ pg.fetches < MaxTeamsPages
    /\ \E answer \in ListingAnswers : pg' = Fetched(answer)
    /\ UNCHANGED <<cfg, policy, frame, obs, pol, scim>>

WorkspacesNext == ListWorkspacesCall \/ FetchTeamsPage \/ ListingCollect

SpecWorkspaces == PagesInit /\ [][WorkspacesNext]_vars

(***************************************************************************)
(* Properties of the cursor-paginated listings.                            *)
(***************************************************************************)
\* the items of the pages of the given sizes, in page order, from page k on
RECURSIVE ItemsFrom(_, _)
ItemsFrom(sizes, k) ==
    IF k > Len(sizes) THEN <<>>
    ELSE Batch(k, sizes[k]) \o ItemsFrom(sizes, k + 1)

AllItems == ItemsFrom(pg.sizes, 1)

\* every answer so far was an ok page, and there is at least one
OnlyOkPages == pg.fetches >= 1 /\ pg.fetches = Len(pg.sizes)

\* every page before the latest had a non-empty next cursor
EarlierPagesHadCursor == \A i \in 1..(Len(pg.more) - 1) : pg.more[i]

Max(a, b) == IF a >= b THEN a ELSE b

\* C24: a listing without a limit whose remote API returns N >= 1 ok pages,
\* of which only the N-th has an empty or absent next cursor, performs
\* exactly N fetches and returns the items of all N pages in page order; it
\* does not stop before that page.
C24_UnlimitedListingReturnsAllPages ==
    (/\ pg.op \in Listings
     /\ pg.limit = None
     /\ OnlyOkPages
     /\ EarlierPagesHadCursor)
        => IF pg.more[Len(pg.more)]
           THEN pg.pc = "fetch" /\ pg.out = AllItems
           ELSE /\ pg.pc = "done"
                /\ pg.fetches = Len(pg.sizes)
                /\ pg.outcome = ListReturned(AllItems)

\* three pages of two items: six items after three fetches
C24_Witness ==
    /\ pg.op \in Listings
    /\ pg.limit = None
    /\ pg.pc = "done"
    /\ pg.sizes = <<2, 2, 2>>
    /\ pg.more = <<TRUE, TRUE, FALSE>>
    /\ pg.fetches = 3
    /\ Len(pg.outcome.value) = 6
    /\ pg.outcome.value[3] = Item(2, 1)

\* C25: with a limit L, get_messages and get_message_threads never return
\* more than L items, and when the pages fetched hold at least L items they
\* return exactly the first L items in page order.
C25_LimitTruncates ==
    (/\ pg.op \in LimitedListings
     /\ pg.limit # None
     /\ pg.pc = "done"
     /\ pg.outcome.kind = "returned")
        => /\ Len(pg.outcome.value) <= The(pg.limit)
           /\ Len(AllItems) >= The(pg.limit) =>
                  pg.outcome.value = SubSeq(AllItems, 1, The(pg.limit))

\* a limit of 3 cuts two pages of two items to the first three
C25_Witness ==
    /\ pg.op \in LimitedListings
    /\ pg.limit = Some(3)
    /\ pg.pc = "done"
    /\ pg.sizes = <<2, 2>>
    /\ pg.outcome = ListReturned(<<Item(1, 1), Item(1, 2), Item(2, 1)>>)

\* C26 as stated: with a limit L, the number of page fetches is bounded by
\* the limit whatever next cursors and page contents the remote API
\* returns: after max(L, 1) fetches the listing has ended.
C26_FetchesBoundedByLimit ==
    (pg.op \in LimitedListings /\ pg.limit # None) =>
        /\ pg.fetches <= Max(The(pg.limit), 1)
        /\ pg.fetches = Max(The(pg.limit), 1) => pg.pc = "done"

\* C26, amended: with a limit L, the listing ends after at most max(L, 1)
\* page fetches provided every page fetched holds at least one item.
C26_FetchesBoundedByLimitOnNonEmptyPages ==
    (/\ pg.op \in LimitedListings
     /\ pg.limit # None
     /\ \A i \in 1..Len(pg.sizes) : pg.sizes[i] >= 1)
        => /\ pg.fetches <= Max(The(pg.limit), 1)
           /\ pg.fetches = Max(The(pg.limit), 1) => pg.pc = "done"

\* the limit, not the cursor, ends the listing at the second fetch
C26_Witness ==
    /\ pg.op \in LimitedListings
    /\ pg.limit = Some(2)
    /\ pg.sizes = <<1, 1>>
    /\ pg.more = <<TRUE, TRUE>>
    /\ pg.fetches = 2
    /\ pg.pc = "done"
    /\ pg.outcome.kind = "returned"

\* C27: the listings have no iteration cap of their own: without a limit,
\* as long as every fetch is answered by an ok page with a non-empty next
\* cursor, the listing has not returned and its next fetch is possible.
C27_NoIterationCap ==
    (/\ pg.op \in Listings
     /\ pg.limit = None
     /\ OnlyOkPages
     /\ \A i \in 1..Len(pg.more) : pg.more[i])
        => /\ pg.pc = "fetch"
           /\ pg.fetches < MaxFetches => ENABLED FetchPage

\* as many fetches as the model allows, and the listing still wants more
C27_Witness ==
    /\ pg.op \in Listings
    /\ pg.limit = None
    /\ pg.fetches = MaxFetches
    /\ Len(pg.more) = MaxFetches
    /\ \A i \in 1..Len(pg.more) : pg.more[i]
    /\ pg.pc = "fetch"
    /\ pg.cursor # None

\* C30: once a list_workspaces call has returned on an object, every later
\* list_workspaces call without force_refresh returns the cached list and
\* fetches no page, whatever the first result was.
C30_LaterCallsUseCache ==
    (/\ pg.op = "list_workspaces"
     /\ pg.before
     /\ ~pg.force_refresh)
        => /\ pg.pc = "done"
           /\ pg.fetches = 0
           /\ pg.outcome = ListReturned(pg.cache)

(***************************************************************************)
(* Cancellation.  call has no cancellation token: a caller cancels it by   *)
(* an exception raised inside a time.sleep (KeyboardInterrupt from SIGINT, *)
(* SystemExit or an exception of the caller's own raised by a signal       *)
(* handler).  Line 32 is in the try block, whose only except clause is for *)
(* SlackApiError; line 43 is in that except clause.                        *)
(***************************************************************************)
Interrupts == {"KeyboardInterrupt", "SystemExit", "CancelledByCaller"}

\* the exception that interrupts a sleep after n api_calls
Interrupt(type, n) == [type |-> type, response |-> None, at |-> n, msg |-> <<>>]

\* a variant of lines 32 and 43 that wraps the sleep in a bare except and
\* carries on as if the sleep had completed
Interrupted_Swallowed(f, e) ==
    IF f.pc = "retry_sleep"
    THEN [f EXCEPT !.pc = "recurse"]
    ELSE [f EXCEPT !.pc = "done", !.outcome = Returned(Data(f.resp))]

\* lines 32 and 43: no except clause matches the exception; it leaves call
\* and every enclosing frame
Interrupted(f, e) == [f EXCEPT !.pc = "done", !.outcome = Raised(e)]

\* line 32, the pacing sleep is interrupted
PaceInterrupted(c) ==
    LET f == frame[c]
    IN  /\ f.pc = "ok"
        /\ \E type \in Interrupts :
              LET e == Interrupt(type, obs[c].sends)
              IN  /\ frame' = [frame EXCEPT ![c] = Interrupted(f, e)]
                  /\ obs' = [obs EXCEPT ![c].interrupt = e,
                                        ![c].sleep_arg = Some(PaceMs(f.tier))]
        /\ UNCHANGED <<cfg, policy>>

\* line 43, the retry sleep is interrupted
RetrySleepInterrupted(c) ==
    LET f == frame[c]
    IN  /\ f.pc = "retry_sleep"
        /\ ~SleepRaises(f.retry_after)
        /\ \E type \in Interrupts :
              LET e == Interrupt(type, obs[c].sends)
              IN  /\ frame' = [frame EXCEPT ![c] = Interrupted(f, e)]
                  /\ obs' = [obs EXCEPT ![c].interrupt = e,
                                        ![c].sleep_arg = Some(f.retry_after * 1000)]
        /\ UNCHANGED <<cfg, policy>>

CancelNext ==
    /\ \E c \in Calls :
           \/ Invoke(c)
           \/ Enter(c)
           \/ ApiCallReturns(c)
           \/ ApiCallRaisesSlackApiError(c)
           \/ ApiCallRaisesOther(c)
           \/ PaceAndReturn(c)
           \/ PaceInterrupted(c)
           \/ Reraise(c)
           \/ GiveUp(c)
           \/ ComputeRetryAfter(c)
           \/ RetrySleep(c)
           \/ RetrySleepRaises(c)
           \/ RetrySleepInterrupted(c)
           \/ Recurse(c)
           \/ Collect(c)
    /\ UNCHANGED <<pol, scim, pg>>

SpecCancel == Init /\ [][CancelNext]_vars

\* C28: when a pacing sleep or a retry sleep of call is interrupted by an
\* exception, the call ends with that exception, and the client sees no
\* api_call after the ones made before the sleep.
C28_InterruptedSleepEndsCall ==
    \A c \in Calls :
        obs[c].interrupt # NoExc =>
            /\ Done(c)
            /\ frame[c].outcome = Raised(obs[c].interrupt)
            /\ obs[c].sends = obs[c].interrupt.at
            /\ ~ENABLED ApiCallReturns(c)
            /\ ~ENABLED ApiCallRaisesSlackApiError(c)
            /\ ~ENABLED ApiCallRaisesOther(c)

\* a retry sleep interrupted after the second throttle signal: two api_calls
\* and one completed retry sleep before it, none after
C28_Witness ==
    \E c \in Calls :
        /\ obs[c].interrupt.type = "KeyboardInterrupt"
        /\ obs[c].answer = "throttle"
        /\ obs[c].sends = 2
        /\ obs[c].waits = 1
        /\ Done(c)

(***************************************************************************)
(* Concurrent use.  Several threads run call on one SlackApiCaller: every  *)
(* step of call reads and writes the locals of its own frame only, and     *)
(* reads self.policy.  The steps of the running calls interleave freely.   *)
(* The remote API answers with a response or with a throttle signal.       *)
(***************************************************************************)
ConcurrentKwargs == { {<<"user", "U1">>}, {<<"user", "U2">>} }

\* a 429 without a Retry-After header
ThrottleResponse == Some([status_code |-> 429, headers |-> None])

ConcurrentInit ==
    /\ cfg = [default_rate_tier |-> "TIER_2"]
    /\ policy = with_default(DEFAULT_RATE_POLICY, cfg.default_rate_tier)
    /\ frame = [c \in Calls |-> IdleFrame]
    /\ obs = [c \in Calls |-> NoObs]
    /\ pol = NoPolicyClient
    /\ scim = NoScimClient
    /\ pg = NoListingClient

\* a thread invokes self.api.call(client, "users.info", user=...), whatever
\* the other threads are doing
ConcurrentInvoke(c) ==
    /\ frame[c].pc = "idle"
    /\ \E kwargs \in ConcurrentKwargs :
          /\ frame' = [frame EXCEPT ![c] =
                          Frame("entry", users_info, None, FALSE, kwargs, 0)]
          /\ obs' = [obs EXCEPT ![c] =
                        [NoObs EXCEPT !.args0 =
                            Some([method |-> users_info, rate_tier |-> None,
                                  use_json |-> FALSE, kwargs |-> kwargs])]]
    /\ UNCHANGED <<cfg, policy>>

\* lines 26-29 and 35, api_call raises the throttle signal
ApiCallRaisesThrottle(c) ==
    LET f == frame[c]
        o == Sent(obs[c], f)
        e == SlackApiError(ThrottleResponse, o.sends)
    IN  /\ f.pc = "try"
        /\ MaySend(c)
        /\ frame' = [frame EXCEPT ![c].exc = e, ![c].pc = "except"]
        /\ obs' = [obs EXCEPT ![c] =
                      [o EXCEPT !.answer = "throttle", !.throttled = @ + 1,
                                !.error = e, !.resp = NoResp]]
        /\ UNCHANGED <<cfg, policy>>

ConcurrentNext ==
    /\ \E c \in Calls :
           \/ ConcurrentInvoke(c)
           \/ Enter(c)
           \/ ApiCallReturns(c)
           \/ ApiCallRaisesThrottle(c)
           \/ PaceAndReturn(c)
           \/ GiveUp(c)
           \/ ComputeRetryAfter(c)
           \/ RetrySleep(c)
           \/ Recurse(c)
           \/ Collect(c)
    /\ UNCHANGED <<pol, scim, pg>>

SpecConcurrent == ConcurrentInit /\ [][ConcurrentNext]_vars

\* the request the caller's arguments of call c ask for
OwnRequest(c) ==
    LET a == The(obs[c].args0)
    IN  IF a.use_json
        THEN [method |-> a.method, json |-> Some(a.kwargs), params |-> None]
        ELSE [method |-> a.method, json |-> None, params |-> Some(a.kwargs)]

\* C29: in every interleaving of concurrent calls on one SlackApiCaller,
\* each invocation keeps its own attempt count: the count of its frame is
\* the number of throttle signals it received itself, it gives up only
\* after its own 6 throttled sends and retries before that, and every
\* request it sends carries its own caller's arguments.
C29_OwnAttemptCount ==
    \A c \in Calls :
        /\ frame[c].pc \in {"entry", "try", "ok"} =>
               frame[c].retry_count = obs[c].throttled
        /\ frame[c].pc \in {"except", "retry_sleep", "recurse"} =>
               frame[c].retry_count + 1 = obs[c].throttled
        /\ GaveUp(c) =>
               /\ obs[c].throttled = MAX_RETRIES + 1
               /\ obs[c].sends = MAX_RETRIES + 1
        /\ (frame[c].pc = "except" /\ obs[c].throttled <= MAX_RETRIES) =>
               ENABLED ComputeRetryAfter(c)
        /\ obs[c].last_send # None =>
               /\ The(obs[c].last_send) = OwnRequest(c)
               /\ The(obs[c].first_send) = OwnRequest(c)

\* one call has given up after its 6 throttled sends while another, with
\* other arguments, is about to make its third send
C29_Witness ==
    \E c \in Calls, d \in Calls :
        /\ c # d
        /\ GaveUp(c)
        /\ obs[c].throttled = MAX_RETRIES + 1
        /\ frame[d].pc = "try"
        /\ frame[d].retry_count = 2
        /\ obs[d].throttled = 2
        /\ obs[c].args0 # obs[d].args0

(***************************************************************************)
(* Further properties of SlackApiCaller.call: the sleeps of one call.      *)
(***************************************************************************)
\* C32: in one call exactly one retry wait lies between two consecutive
\* api_call invocations and none elsewhere: a call with k throttles and then
\* a response has made exactly k retry waits and then one pacing sleep; a
\* call that gives up has made exactly 5 retry waits, none after the 6th
\* throttle signal, and no pacing sleep.
C32_OneWaitBetweenSends ==
    \A c \in Calls :
        /\ (obs[c].sends >= 1 /\ frame[c].pc \in {"entry", "try", "recurse"}) =>
               /\ obs[c].waits = obs[c].sends
               /\ obs[c].since_send = 1
               /\ obs[c].last_sleep.kind = "retry"
        /\ frame[c].pc \in {"ok", "except", "retry_sleep"} =>
               /\ obs[c].waits = obs[c].sends - 1
               /\ obs[c].since_send = 0
        /\ obs[c].paces > 0 =>
               (Done(c) /\ frame[c].outcome.kind = "returned")
        /\ (Done(c) /\ frame[c].outcome.kind = "returned") =>
               /\ obs[c].waits = obs[c].throttled
               /\ obs[c].sends = obs[c].throttled + 1
               /\ obs[c].paces = 1
               /\ obs[c].last_sleep.kind = "pace"
        /\ GaveUp(c) =>
               /\ obs[c].waits = MAX_RETRIES
               /\ obs[c].since_send = 0
               /\ obs[c].paces = 0

\* three throttles, three retry waits, a response and one pacing sleep
C32_Witness ==
    \E c \in Calls :
        /\ Done(c)
        /\ frame[c].outcome.kind = "returned"
        /\ obs[c].throttled = 3
        /\ obs[c].sends = 4
        /\ obs[c].waits = 3
        /\ obs[c].paces = 1

\* C33: the pacing tier of a call is fixed at its first attempt: every
\* frame of the call, every fallback retry wait and the final pacing sleep
\* use the tier resolved from the caller's arguments (the explicit
\* rate_tier, else the policy's tier for the method).
C33_TierFixedAtFirstAttempt ==
    \A c \in Calls :
        obs[c].tier0 # None =>
            LET a == The(obs[c].args0)
                first == IF a.rate_tier # None
                         THEN The(a.rate_tier)
                         ELSE tier_for(policy, a.method)
            IN  /\ obs[c].tier0 = Some(first)
                /\ frame[c].pc # "entry" => frame[c].tier = first
                /\ (frame[c].pc = "entry" /\ obs[c].sends >= 1) =>
                       frame[c].rate_tier = Some(first)
                /\ (obs[c].last_sleep.kind = "retry" /\ HintUnusable(c)) =>
                       obs[c].last_sleep.ms = IntSeconds(first) * 1000
                /\ obs[c].last_sleep.kind = "pace" =>
                       obs[c].last_sleep.ms = FloatMs(first)

\* the fifth retry wait of a call of admin.teams.list (TIER_1 by the
\* policy) with the explicit rate_tier TIER_2, on a signal without a hint:
\* 3 s, not 60 s
C33_Witness ==
    \E c \in Calls :
        /\ obs[c].args0 # None
        /\ (The(obs[c].args0)).method = admin_teams_list
        /\ (The(obs[c].args0)).rate_tier = Some("TIER_2")
        /\ obs[c].waits = MAX_RETRIES
        /\ frame[c].pc = "recurse"
        /\ LatestHint(c) = None
        /\ obs[c].last_sleep = [kind |-> "retry", ms |-> 3000]

\* the wait that a hint and a tier ask for, in milliseconds
WaitFor(hint, tier) ==
    IF hint # None /\ The(hint) \in DOMAIN IntegerHints
    THEN IntegerHints[The(hint)] * 1000
    ELSE IntSeconds(tier) * 1000

\* C34: every retry wait of a call depends only on the hint of the throttle
\* signal that caused it and on the call's pacing tier, never on the
\* attempt number: the same hint gives the same wait at every attempt.
C34_WaitIndependentOfAttempt ==
    \A c \in Calls :
        obs[c].last_sleep.kind = "retry" =>
            /\ obs[c].last_sleep.ms = WaitFor(LatestHint(c), The(obs[c].tier0))
            /\ obs[c].sleep_arg = Some(obs[c].last_sleep.ms)

\* the fifth retry wait on the hint "2" is 2 s, as the first is
C34_Witness ==
    \E c \in Calls :
        /\ obs[c].waits = MAX_RETRIES
        /\ frame[c].retry_count = MAX_RETRIES - 1
        /\ frame[c].pc = "recurse"
        /\ LatestHint(c) = Some(<<"2">>)
        /\ obs[c].last_sleep = [kind |-> "retry", ms |-> 2000]

(***************************************************************************)
(* Pacing under concurrent use.                                            *)
(***************************************************************************)
\* call d has sent its request and has not completed its pacing sleep
Unpaced(d) == frame[d].pc = "ok" /\ obs[d].paces = 0

\* C40: pacing is per call and not enforced across calls: a call that is
\* ready to send is never held back by another call, so two concurrent
\* calls for the same method can both send with no pacing sleep completed
\* between the two sends.
C40_PacingNotEnforcedAcrossCalls ==
    \A c \in Calls :
        frame[c].pc = "try" =>
            /\ ENABLED ApiCallReturns(c)
            /\ ENABLED ApiCallRaisesThrottle(c)

\* two calls of users.info have both sent their first request and neither
\* has slept since
C40_Witness ==
    \E c \in Calls, d \in Calls :
        /\ c # d
        /\ Unpaced(c) /\ Unpaced(d)
        /\ obs[c].sends = 1 /\ obs[d].sends = 1
        /\ obs[c].waits = 0 /\ obs[d].waits = 0
        /\ (The(obs[c].last_send)).method = (The(obs[d].last_send)).method

\* the number of items of the first i pages
ItemsIn(i) == Len(ItemsFrom(SubSeq(pg.sizes, 1, i), 1))

\* C35: with a limit, get_messages and get_message_threads stop fetching as
\* soon as the accumulated items reach or exceed the limit: no page is
\* fetched after the page on which the accumulator first reached the limit,
\* even if that page returned a non-empty next cursor.
C35_StopsWhenLimitReached ==
    (/\ pg.op \in LimitedListings
     /\ pg.limit # None)
        => /\ \A i \in 1..(Len(pg.sizes) - 1) : ItemsIn(i) < The(pg.limit)
           /\ (Len(pg.sizes) >= 1 /\ ItemsIn(Len(pg.sizes)) >= The(pg.limit)) =>
                  /\ pg.pc = "done"
                  /\ pg.outcome.kind = "returned"
                  /\ pg.fetches = Len(pg.sizes)
                  /\ ~ENABLED FetchPage

\* the second page brings the accumulator to the limit of 3 exactly and
\* returns a cursor: the listing has ended after two fetches
C35_Witness ==
    /\ pg.op \in LimitedListings
    /\ pg.limit = Some(3)
    /\ pg.sizes = <<1, 2>>
    /\ pg.more = <<TRUE, TRUE>>
    /\ pg.last_next = Some("b")
    /\ pg.fetches = 2
    /\ pg.pc = "done"

\* C36: the first page request of a cursor-paginated listing carries no
\* cursor; every later request carries exactly the next cursor returned by
\* the page before it; all other arguments are those of the first request.
C36_RequestsCarryPreviousCursor ==
    (pg.op \in Listings /\ pg.fetches >= 1) =>
        /\ pg.first # None /\ pg.req # None
        /\ (The(pg.first)).cursor = None
        /\ (The(pg.req)).args = (The(pg.first)).args
        /\ pg.fetches = 1 => pg.req = pg.first
        /\ pg.fetches >= 2 =>
               /\ pg.prev_next \notin {None, Some("")}
               /\ (The(pg.req)).cursor = pg.prev_next

\* the third request carried the cursor "b" of the second page, not the
\* cursor "a" of the first
C36_Witness ==
    /\ pg.op \in Listings
    /\ pg.fetches = 3
    /\ pg.sent = Some("b")
    /\ pg.prev_next = Some("b")
    /\ pg.req = Some([args |-> PayloadArgs(pg.limit), cursor |-> Some("b")])
    /\ pg.last_next = Some("a")

(***************************************************************************)
(* The process-wide DEFAULT_RATE_POLICY under a program that constructs    *)
(* SlackApiCaller objects with the default policy argument and makes calls *)
(* on them.  pol holds the module-level object as it is now, the callers   *)
(* constructed so far and the latest tier resolution of a call.            *)
(***************************************************************************)
MaxCallers == 2

\* SlackApiCaller(cfg) for the next free caller slot: the policy argument
\* defaults to the module-level DEFAULT_RATE_POLICY object (lines 16-19)
NewCaller ==
    /\ pol.built
    /\ \E k \in 1..MaxCallers, tier \in RateTier :
           /\ pol.callers[k] = None
           /\ \A j \in 1..(k - 1) : pol.callers[j] # None
           /\ LET e == WithDefaultEffect(pol.global, tier)
              IN  pol' = [pol EXCEPT
                      !.global = e.self,
                      !.callers[k] = Some([cfg |-> [default_rate_tier |-> tier],
                                           policy |-> e.result]),
                      !.lookup = None]
    /\ UNCHANGED <<cfg, policy, frame, obs, scim, pg>>

\* caller k runs call(client, method) without rate_tier: line 23 asks its
\* policy; no step of call writes to a policy
CallerResolves ==
    /\ pol.built
    /\ \E k \in 1..MaxCallers, method \in Methods :
           /\ pol.callers[k] # None
           /\ pol' = [pol EXCEPT !.lookup =
                         Some([caller |-> k, method |-> method,
                               tier |-> ResolveTier((The(pol.callers[k])).policy,
                                                    None, method)])]
    /\ UNCHANGED <<cfg, policy, frame, obs, scim, pg>>

CallersInit ==
    /\ cfg = [default_rate_tier |-> "TIER_2"]
    /\ policy = with_default(DEFAULT_RATE_POLICY, cfg.default_rate_tier)
    /\ frame = [c \in Calls |-> IdleFrame]
    /\ obs = [c \in Calls |-> NoObs]
    /\ scim = NoScimClient
    /\ pg = NoListingClient
    /\ pol = [ built |-> TRUE,
               global |-> DEFAULT_RATE_POLICY,
               callers |-> [k \in 1..MaxCallers |-> None],
               lookup |-> None ]

CallersNext == NewCaller \/ CallerResolves

SpecCallers == CallersInit /\ [][CallersNext]_vars

\* C39: DEFAULT_RATE_POLICY is never changed by use: after any number of
\* SlackApiCaller constructions with any cfg.default_rate_tier and any
\* calls, it still has default TIER_3 and its original rule tables, and
\* each caller resolves a method that matches no rule to its own
\* cfg.default_rate_tier.
C39_DefaultPolicyUnchanged ==
    /\ pol.global.default = "TIER_3"
    /\ pol.global = DEFAULT_RATE_POLICY
    /\ pol.lookup # None =>
           LET l == The(pol.lookup)
               own == (The(pol.callers[l.caller])).cfg.default_rate_tier
           IN  (/\ l.method \notin DOMAIN DEFAULT_RATE_POLICY.method_overrides
                /\ Matching(DEFAULT_RATE_POLICY, l.method) = {}) =>
                   l.tier = own

\* caller 1 (TIER_4) resolves totally.unknown to TIER_4 after caller 2 was
\* constructed with TIER_1
C39_Witness ==
    /\ pol.callers[1] # None /\ pol.callers[2] # None
    /\ (The(pol.callers[1])).cfg.default_rate_tier = "TIER_4"
    /\ (The(pol.callers[2])).cfg.default_rate_tier = "TIER_1"
    /\ pol.lookup = Some([caller |-> 1, method |-> totally_unknown,
                          tier |-> "TIER_4"])
    /\ pol.global.default = "TIER_3"

(***************************************************************************)
(* The offset-paginated listings: Conversations.get_members                *)
(* (conversations.py:349-389) and Users.get_channels (users.py:359-395).   *)
(* pg.cursor is payload["offset"].                                         *)
(***************************************************************************)
MaxOffsetPages == 3

\* the offset of a page: a JSON string or a JSON number
OffsetStr(s) == [type |-> "str", s |-> s, n |-> 0]

OffsetNum(n) == [type |-> "num", s |-> <<>>, n |-> n]

\* resp.get("offset"): None for an absent key or null
Offsets ==
    { None, Some(OffsetStr(<<>>)), Some(OffsetStr(<<"a">>)),
      Some(OffsetStr(<<"0">>)), Some(OffsetNum(0)), Some(OffsetNum(1000)) }

\* a test for presence only: `if offset is not None`
OffsetTruthy_PresentOnly(offset) == offset # None

\* `if offset:` on a string or a number
OffsetTruthy(offset) ==
    /\ offset # None
    /\ IF The(offset).type = "str" THEN The(offset).s # <<>> ELSE The(offset).n # 0

\* the i-th channel of the k-th page: the first of a page has date_left 0,
\* the second has left, the others have no date_left key
Channel(k, i) ==
    [page |-> k, pos |-> i,
     date_left |-> IF i = 1 THEN Some(0) ELSE IF i = 2 THEN Some(1700) ELSE None]

ChannelBatch(k, n) == [i \in 1..n |-> Channel(k, i)]

\* ch.get("date_left", 0) == 0
IsCurrent(ch) == ch.date_left = None \/ ch.date_left = Some(0)

\* current_channels: the channels of all_channels that pass IsCurrent, in order
RECURSIVE CurrentOf(_)
CurrentOf(chs) ==
    IF chs = <<>> THEN <<>>
    ELSE (IF IsCurrent(Head(chs)) THEN <<Head(chs)>> ELSE <<>>) \o CurrentOf(Tail(chs))

\* users.py:377: the error dict, with a copy of the payload
ErrorDict(request) == [message |-> "unknown_error", payload |-> request]

OffsetAnswers ==
    [raises : {FALSE}, ok : {TRUE}, n : 0..MaxPageItems, offset : Offsets]
    \cup { [raises |-> FALSE, ok |-> FALSE, n |-> 0, offset |-> None],
           [raises |-> TRUE, ok |-> FALSE, n |-> 0, offset |-> None] }

OffsetListings == {"get_members", "get_channels"}

\* one iteration of the loop on the k-th answer to the given request
OffsetLoopBody(op, active_only, out, request, answer, k) ==
    IF answer.raises
    THEN [ends |-> TRUE, out |-> out, outcome |-> ListRaised("SlackApiError"), offset |-> None]
    ELSE IF ~answer.ok
    THEN [ends |-> TRUE, out |-> out, offset |-> None,
          outcome |-> IF op = "get_members"
                      THEN ListRaised("RuntimeError")
                      ELSE ListReturned(<<ErrorDict(request)>>)]
    ELSE LET acc == Extend(out, IF op = "get_members"
                                THEN Batch(k, answer.n)
                                ELSE ChannelBatch(k, answer.n))
         IN  IF OffsetTruthy(answer.offset)
             THEN [ends |-> FALSE, out |-> acc, outcome |-> ListRaised("none"),
                   offset |-> answer.offset]
             ELSE [ends |-> TRUE, out |-> acc, offset |-> None,
                   outcome |-> ListReturned(
                       IF op = "get_members" \/ ~active_only
                       THEN acc ELSE CurrentOf(acc))]

\* get_members (channel passed or bound, else ValueError) and get_channels,
\* up to the loop
OffsetListingCall ==
    /\ pg.built /\ pg.pc = "idle"
    /\ \E op \in OffsetListings, target \in ListingTargets, active_only \in BOOLEAN :
           /\ op = "get_members" => ~active_only
           /\ op = "get_channels" => target # None
           /\ pg' = IF target = None
                    THEN Ended(op, None, FALSE, ListRaised("ValueError"))
                    ELSE [Started(op, None, FALSE) EXCEPT
                             !.args = PayloadArgs(Some(1000)),
                             !.active_only = active_only]
    /\ UNCHANGED <<cfg, policy, frame, obs, pol, scim>>

\* one iteration of the loop of get_members or get_channels
FetchOffsetPage ==
    /\ pg.built /\ pg.pc = "fetch"
    /\ WhileTrue(pg.fetches)
    /\ pg.fetches < MaxOffsetPages
    /\ \E answer \in OffsetAnswers :
           LET k == pg.fetches + 1
               request == [args |-> pg.args, cursor |-> pg.cursor]
               b == OffsetLoopBody(pg.op, pg.active_only, pg.out, request, answer, k)
               page == ~answer.raises /\ answer.ok
           IN  pg' = [pg EXCEPT
                   !.fetches = k,
                   !.sent = pg.cursor,
                   !.first = IF pg.fetches = 0 THEN Some(request) ELSE @,
                   !.req = Some(request),
                   !.prev_next = pg.last_next,
                   !.last_next = IF page THEN answer.offset ELSE None,
                   !.sizes = IF page THEN Append(@, answer.n) ELSE @,
                   !.more = IF page THEN Append(@, ~b.ends) ELSE @,
                   !.out = b.out,
                   !.cursor = IF b.ends THEN @ ELSE b.offset,
                   !.pc = IF b.ends THEN "done" ELSE "fetch",
                   !.outcome = b.outcome]
    /\ UNCHANGED <<cfg, policy, frame, obs, pol, scim>>

OffsetsNext == OffsetListingCall \/ FetchOffsetPage \/ ListingCollect

SpecOffsets == PagesInit /\ [][OffsetsNext]_vars

\* an offset that is absent, empty or zero
OffsetEnds(offset) ==
    offset \in {None, Some(OffsetStr(<<>>)), Some(OffsetNum(0))}

\* C37: the offset-paginated listings keep fetching while the page's offset
\* is present and non-empty, sending that offset with the next request, and
\* stop at the first ok page whose offset is absent, empty or zero;
\* get_members then returns the members of all fetched pages in page order.
C37_OffsetPagination ==
    (pg.op \in OffsetListings /\ OnlyOkPages) =>
        /\ (The(pg.first)).cursor = None
        /\ pg.fetches >= 2 =>
               /\ ~OffsetEnds(pg.prev_next)
               /\ (The(pg.req)).cursor = pg.prev_next
               /\ (The(pg.req)).args = (The(pg.first)).args
        /\ IF OffsetEnds(pg.last_next)
           THEN /\ pg.pc = "done"
                /\ ~ENABLED FetchOffsetPage
                /\ pg.op = "get_members" => pg.outcome = ListReturned(AllItems)
           ELSE /\ pg.pc = "fetch"
                /\ pg.cursor = pg.last_next
                /\ pg.fetches < MaxOffsetPages => ENABLED FetchOffsetPage

\* get_members: three pages, the offsets "a" and 1000 sent on, the zero
\* offset of the third page ends the listing with all five members
C37_Witness ==
    /\ pg.op = "get_members"
    /\ pg.sizes = <<2, 1, 2>>
    /\ pg.prev_next = Some(OffsetNum(1000))
    /\ pg.sent = Some(OffsetNum(1000))
    /\ pg.last_next = Some(OffsetNum(0))
    /\ pg.pc = "done"
    /\ Len(pg.outcome.value) = 5
    /\ pg.outcome.value[3] = Item(2, 1)

(***************************************************************************)
(* IDP_groups.get_groups (idp_groups.py:131-171): the SCIM Groups listing, *)
(* paginated by startIndex and count.  Under this specification pg is the  *)
(* IDP_groups object with the locals of the get_groups call in progress.   *)
(***************************************************************************)
MaxGroupPages == 3
MaxTotal == 3

\* the i-th resource of the k-th page
Group(k, i) == [id |-> <<"S", k, i>>, displayName |-> <<"group", k, i>>]

\* line 150: {"group id": grp.get("id"), "group name": grp.get("displayName")}
GroupEntry(grp) == ("group id" :> grp.id) @@ ("group name" :> grp.displayName)

\* lines 149-151: one entry per resource, in order
GroupEntries(k, n) == [i \in 1..n |-> GroupEntry(Group(k, i))]

\* the totalResults key of a page: absent, null, or a number
NoTotalKey == [present |-> FALSE, value |-> None]

Totals ==
    {NoTotalKey, [present |-> TRUE, value |-> None]}
    \cup { [present |-> TRUE, value |-> Some(t)] : t \in 0..MaxTotal }

\* the answers to GET Groups: a 2xx page, or a status that makes
\* raise_for_status raise
GroupsAnswers ==
    [http_error : {FALSE}, n : 0..MaxPageItems, totalResults : Totals]
    \cup { [http_error |-> TRUE, n |-> 0, totalResults |-> NoTotalKey] }

\* lines 115-118: params of _scim_groups_list; startIndex only when truthy
GroupsParams(count, start_index) ==
    [count |-> count,
     startIndex |-> IF start_index # None /\ The(start_index) # 0
                    THEN start_index ELSE None]

\* a variant of line 153 that lets a null totalResults keep the old total
TotalAfter_KeepsOnNull(total_results, page) ==
    IF page.totalResults.value # None THEN page.totalResults.value
    ELSE total_results

\* line 153: total_results = resp.get("totalResults", total_results)
TotalAfter(total_results, page) ==
    IF page.totalResults.present THEN page.totalResults.value ELSE total_results

\* lines 155-161: the two breaks
GroupsLoopEnds(total_results, retrieved) ==
    total_results = None \/ retrieved >= The(total_results)

\* lines 164-167
NextStartIndex(start_index, fetch_count) ==
    IF start_index = None THEN Some(fetch_count + 1)
    ELSE Some(The(start_index) + fetch_count)

IdleGroups ==
    [ built |-> TRUE, op |-> "none", pc |-> "idle",
      token |-> None,          \* cfg.scim_token
      fetch_count |-> 0,
      start_index |-> None,
      total_results |-> None,
      groups_out |-> <<>>,
      retrieved |-> 0,
      fetches |-> 0,           \* GET Groups requests of this call
      slept |-> 0,             \* completed TIER_2 sleeps of this call
      params |-> <<>>,         \* the params of each request, in order
      sizes |-> <<>>,          \* the number of resources of each page
      totals |-> <<>>,         \* the totalResults key of each page
      outcome |-> ListRaised("none") ]

GroupsInit ==
    /\ cfg = [default_rate_tier |-> "TIER_2"]
    /\ policy = with_default(DEFAULT_RATE_POLICY, cfg.default_rate_tier)
    /\ frame = [c \in Calls |-> IdleFrame]
    /\ obs = [c \in Calls |-> NoObs]
    /\ pol = NoPolicyClient
    /\ scim = NoScimClient
    /\ pg = IdleGroups

\* get_groups(fetch_count) up to the loop (lines 141-144)
GetGroupsCall ==
    /\ pg.built /\ pg.pc = "idle"
    /\ \E fetch_count \in 1..MaxPageItems, token \in {None, Some("xoxp-scim")} :
           pg' = [IdleGroups EXCEPT !.op = "get_groups", !.pc = "fetch",
                                    !.token = token,
                                    !.fetch_count = fetch_count]
    /\ UNCHANGED <<cfg, policy, frame, obs, pol, scim>>

\* lines 84-86: no token, ValueError before any request
GroupsNoToken ==
    /\ pg.built /\ pg.pc = "fetch"
    /\ pg.token = None
    /\ pg' = [pg EXCEPT !.pc = "done", !.outcome = ListRaised("ValueError")]
    /\ UNCHANGED <<cfg, policy, frame, obs, pol, scim>>

\* one iteration of the loop (lines 146-167) and the return after it
FetchGroupsPage ==
    /\ pg.built /\ pg.pc = "fetch"
    /\ pg.token # None
    /\ WhileTrue(pg.fetches)
    /\ pg.fetches < MaxGroupPages
    /\ \E answer \in GroupsAnswers :
           LET sent == Append(pg.params, GroupsParams(pg.fetch_count, pg.start_index))
           IN  IF answer.http_error
               THEN pg' = [pg EXCEPT !.fetches = @ + 1, !.params = sent,
                                     !.pc = "done",
                                     !.outcome = ListRaised("HTTPError")]
               ELSE LET out == Extend(pg.groups_out,
                                      GroupEntries(pg.fetches + 1, answer.n))
                        retrieved == pg.retrieved + answer.n
                        total == TotalAfter(pg.total_results, answer)
                        ends == GroupsLoopEnds(total, retrieved)
                    IN  pg' = [pg EXCEPT
                            !.fetches = @ + 1,
                            !.slept = @ + 1,
                            !.params = sent,
                            !.sizes = Append(@, answer.n),
                            !.totals = Append(@, answer.totalResults),
                            !.groups_out = out,
                            !.retrieved = retrieved,
                            !.total_results = total,
                            !.start_index = IF ends THEN @
                                            ELSE NextStartIndex(@, pg.fetch_count),
                            !.pc = IF ends THEN "done" ELSE "fetch",
                            !.outcome = IF ends THEN ListReturned(out) ELSE @]
    /\ UNCHANGED <<cfg, policy, frame, obs, pol, scim>>

\* the caller takes the result
GroupsCollect ==
    /\ pg.built /\ pg.pc = "done"
    /\ pg' = IdleGroups
    /\ UNCHANGED <<cfg, policy, frame, obs, pol, scim>>

GroupsNext == GetGroupsCall \/ GroupsNoToken \/ FetchGroupsPage \/ GroupsCollect

SpecGroups == GroupsInit /\ [][GroupsNext]_vars

\* the entries of the pages of the given sizes, in page order, from page k on
RECURSIVE EntriesFrom(_, _)
EntriesFrom(sizes, k) ==
    IF k > Len(sizes) THEN <<>>
    ELSE GroupEntries(k, sizes[k]) \o EntriesFrom(sizes, k + 1)

\* the latest number a page gave as totalResults, None when no page gave one
RECURSIVE Reported(_)
Reported(totals) ==
    IF totals = <<>> THEN None
    ELSE IF totals[Len(totals)].value # None THEN totals[Len(totals)].value
    ELSE Reported(SubSeq(totals, 1, Len(totals) - 1))

\* the value under the latest totalResults key a page carried, None when no
\* page carried the key or when that value is null
RECURSIVE LatestKey(_)
LatestKey(totals) ==
    IF totals = <<>> THEN None
    ELSE IF totals[Len(totals)].present THEN totals[Len(totals)].value
    ELSE LatestKey(SubSeq(totals, 1, Len(totals) - 1))

\* what C38 says of the requests and of the output
GroupsRequestsAndOutput ==
    /\ \A k \in 1..pg.fetches :
           pg.params[k] =
               [count |-> pg.fetch_count,
                startIndex |-> IF k = 1 THEN None
                               ELSE Some((k - 1) * pg.fetch_count + 1)]
    /\ pg.groups_out = EntriesFrom(pg.sizes, 1)

\* the listing stops after the latest page exactly when no total is in force
\* or the entries retrieved reach it
StopsExactlyWhen(total) ==
    IF total = None \/ Len(pg.groups_out) >= The(total)
    THEN pg.pc = "done" /\ pg.outcome = ListReturned(pg.groups_out)
    ELSE pg.pc = "fetch"

\* C38: get_groups requests Groups with no startIndex first and then with
\* startIndex fetch_count+1, 2*fetch_count+1, ..., appends one entry per
\* returned resource in page order, and stops after the first page at which
\* the number of entries retrieved is at least totalResults, or at which no
\* totalResults has been reported.
C38_GetGroupsAggregatesAllPages ==
    (/\ pg.op = "get_groups"
     /\ pg.fetches >= 1
     /\ pg.fetches = Len(pg.sizes))
        => /\ GroupsRequestsAndOutput
           /\ StopsExactlyWhen(Reported(pg.totals))

\* C38 (amended): as above, but the total in force at a page is the value
\* under the latest totalResults key carried by a page so far, and a null
\* value under that key counts as no total even when an earlier page gave a
\* number: the listing then stops with the entries retrieved so far.
C38_GetGroupsStopsOnLatestKey ==
    (/\ pg.op = "get_groups"
     /\ pg.fetches >= 1
     /\ pg.fetches = Len(pg.sizes))
        => /\ GroupsRequestsAndOutput
           /\ StopsExactlyWhen(LatestKey(pg.totals))

\* a listing of two pages or more has returned three entries or more
C38_Witness ==
    /\ pg.op = "get_groups"
    /\ pg.pc = "done"
    /\ Len(pg.sizes) >= 2
    /\ pg.outcome.kind = "returned"
    /\ Len(pg.outcome.value) >= 3
    /\ pg.params[2].startIndex = Some(pg.fetch_count + 1)

(***************************************************************************)
(* Users.is_user_authorized (users.py:241-279).  Under this specification  *)
(* scim is a client holding a Users object: its configuration with the two *)
(* authorization policies, the user the object is bound to with the cached *)
(* attributes, and the record of the latest call.                          *)
(***************************************************************************)
S2 == <<"S", "2">>

\* the groups a policy lists for a service
GroupLists == {<<>>, <<S1>>, <<S1, S2>>}

MyService == "my_service"

Services == {MyService, "other_service"}

AuthLevels == {"read", "write"}

\* the "deleted" key of the attributes cache: absent, true or false
DeletedKeys == {None, Some(TRUE), Some(FALSE)}

\* the user id as the members list of a group writes it
MemberValue(user_id) == IF user_id = U1 THEN "U1" ELSE "U?"

\* getattr(self.cfg, "auth_idp_groups_<level>_access", {}).get(service_name, [])
\* (lines 259-262); any level other than "write" reads the read policy
PolicyGroups(config, service_name, auth_level) ==
    LET access == IF auth_level = "write"
                  THEN config.auth_idp_groups_write_access
                  ELSE config.auth_idp_groups_read_access
    IN  IF service_name \in DOMAIN access THEN access[service_name] ELSE <<>>

\* what a call of is_user_authorized did: the group requests it sent, in
\* order, and its outcome
Auth(sent, outcome) == [sent |-> sent, outcome |-> outcome]

\* lines 275-279: the loop over group_ids from position i on; resps[i] is
\* the server's answer to the request for group_ids[i]
RECURSIVE MembershipLoop(_, _, _, _, _, _)
MembershipLoop(idp, user_id, group_ids, resps, i, sent) ==
    IF i > Len(group_ids) THEN Auth(sent, ScimReturned(FALSE))
    ELSE LET did == is_member(idp, MemberValue(user_id),
                              Some(group_ids[i]), resps[i])
             now == IF did.sent = None THEN sent
                    ELSE Append(sent, The(did.sent))
         IN  IF did.outcome.kind = "raised" THEN Auth(now, did.outcome)
             ELSE IF did.outcome.value[1] THEN Auth(now, ScimReturned(TRUE))
             ELSE MembershipLoop(idp, user_id, group_ids, resps, i + 1, now)

\* a variant that rejects a deactivated user before the policy is read
is_user_authorized_ChecksActive(self, service_name, auth_level, resps) ==
    IF Falsy(self.user_id) THEN Auth(<<>>, ScimRaised("ValueError"))
    ELSE IF self.attributes.deleted = Some(TRUE)
    THEN Auth(<<>>, ScimReturned(FALSE))
    ELSE LET group_ids == PolicyGroups(self.cfg, service_name, auth_level)
         IN  IF group_ids = <<>> THEN Auth(<<>>, ScimReturned(FALSE))
             ELSE MembershipLoop([cfg |-> self.cfg, group_id |-> None],
                                 The(self.user_id), group_ids, resps, 1, <<>>)

\* lines 241-279
is_user_authorized(self, service_name, auth_level, resps) ==
    IF Falsy(self.user_id) THEN Auth(<<>>, ScimRaised("ValueError"))
    ELSE LET group_ids == PolicyGroups(self.cfg, service_name, auth_level)
         IN  IF group_ids = <<>> THEN Auth(<<>>, ScimReturned(FALSE))
             ELSE MembershipLoop([cfg |-> self.cfg, group_id |-> None],
                                 The(self.user_id), group_ids, resps, 1, <<>>)

NoAuthRun ==
    [ op |-> "none", service_name |-> "none", auth_level |-> "none",
      group_ids |-> <<>>, sent |-> <<>>, outcome |-> ScimRaised("none") ]

AuthInit ==
    /\ cfg = [default_rate_tier |-> "TIER_2"]
    /\ policy = with_default(DEFAULT_RATE_POLICY, cfg.default_rate_tier)
    /\ frame = [c \in Calls |-> IdleFrame]
    /\ obs = [c \in Calls |-> NoObs]
    /\ pol = NoPolicyClient
    /\ pg = NoListingClient
    /\ \E token \in {None, Some("xoxp-scim")}, read \in GroupLists,
          write \in GroupLists :
           scim = [ built |-> TRUE,
                    cfg |-> [ scim_token |-> token, scim_version |-> "v2",
                              auth_idp_groups_read_access |-> (MyService :> read),
                              auth_idp_groups_write_access |-> (MyService :> write) ],
                    user_id |-> None,
                    attributes |-> [deleted |-> None],
                    run |-> NoAuthRun ]

\* users.with_user(user_id) (lines 55-66), and the attributes cache of the
\* bound object as a lookup or the client has filled it
WithUser ==
    /\ scim.built /\ scim.run.op = "none"
    /\ \E user_id \in UserBound, deleted \in DeletedKeys :
           scim' = [scim EXCEPT !.user_id = user_id,
                                !.attributes = [deleted |-> deleted]]
    /\ UNCHANGED <<cfg, policy, frame, obs, pol, pg>>

IsUserAuthorized ==
    /\ scim.built /\ scim.run.op = "none"
    /\ \E service_name \in Services, auth_level \in AuthLevels,
          resps \in [1..2 -> ScimAnswers] :
           LET did == is_user_authorized(scim, service_name, auth_level, resps)
           IN  scim' = [scim EXCEPT !.run =
                   [ op |-> "is_user_authorized",
                     service_name |-> service_name,
                     auth_level |-> auth_level,
                     group_ids |-> PolicyGroups(scim.cfg, service_name, auth_level),
                     sent |-> did.sent,
                     outcome |-> did.outcome ]]
    /\ UNCHANGED <<cfg, policy, frame, obs, pol, pg>>

\* the client takes the result
AuthCollect ==
    /\ scim.built /\ scim.run.op # "none"
    /\ scim' = [scim EXCEPT !.run = NoAuthRun]
    /\ UNCHANGED <<cfg, policy, frame, obs, pol, pg>>

AuthNext == WithUser \/ IsUserAuthorized \/ AuthCollect

SpecAuth == AuthInit /\ [][AuthNext]_vars

\* C31: is_user_authorized returns False for a bound user whose cached
\* attributes have deleted = true, even when the service has authorized
\* groups configured, and sends no SCIM group-membership request.
C31_DeactivatedUserNotAuthorized ==
    (/\ scim.run.op = "is_user_authorized"
     /\ ~Falsy(scim.user_id)
     /\ scim.attributes.deleted = Some(TRUE))
        => /\ scim.run.outcome = ScimReturned(FALSE)
           /\ scim.run.sent = <<>>

====
